---- MODULE Spec2Model ----
(***************************************************************************)
(* Model of the procedural generation and per-frame simulation layer of    *)
(* the Milky Way visualization (src/src/components/*.jsx).                 *)
(*                                                                         *)
(* Numbers.  JavaScript doubles are modelled in fixed point:               *)
(*   - a coordinate stored in a Float32Array is an integer number of       *)
(*     1/PosScale units; the rounding a Float32Array store performs is the *)
(*     rounding of Fround to that grid;                                    *)
(*   - an angle (argument of Math.sin / Math.cos) is an integer number of  *)
(*     1/AngScale radians;                                                 *)
(*   - Math.sin / Math.cos return an integer number of 1/SinScale;         *)
(*   - the clock is an integer number of 1/TimeScale seconds;              *)
(*   - a "tenths" parameter p is the integer 10*p, a "thousandths"         *)
(*     parameter the integer 1000*p.                                       *)
(* Math.random() is a draw from a bounded set of outcomes.                 *)
(***************************************************************************)
EXTENDS Integers, Sequences, FiniteSets, TLC

\* ------------------------------------------------------------------------
\* Fixed-point formats
\* ------------------------------------------------------------------------
PosScale == 100
AngScale == 10000
SinScale == 1000
TimeScale == 10
Pi == 31416
TwoPi == 62832

Abs(n) == IF n < 0 THEN -n ELSE n

\* Rounding of the exact quotient num/den (den > 0) to the nearest integer;
\* this is the rounding of a store into a Float32Array.
Fround(num, den) ==
  IF num >= 0 THEN (2 * num + den) \div (2 * den)
  ELSE -((2 * (-num) + den) \div (2 * den))

\* The code that stands for a value that is not a finite number (NaN, an
\* infinity); no finite value of the model is this small.
NaN == -1000000000

\* Math.sqrt on a non-negative integer: the floor of the square root.
RECURSIVE SqrtSearch(_, _, _)
SqrtSearch(n, lo, hi) ==
  IF lo >= hi THEN lo
  ELSE LET mid == (lo + hi + 1) \div 2
       IN IF mid * mid <= n THEN SqrtSearch(n, mid, hi)
          ELSE SqrtSearch(n, lo, mid - 1)

Sqrt(n) == SqrtSearch(n, 0, 46340)

\* Math.sin on the half period [0, pi], argument in 1/1000 radians
\* (Bhaskara's rational approximation), result in 1/SinScale.
SinHalf(m) ==
  LET p == m * (3142 - m)
  IN (4000 * (p \div 16)) \div ((12340205 - p) \div 16)

\* Math.sin, argument in 1/AngScale radians, result in 1/SinScale.
Sin(a) ==
  LET m == (a % TwoPi) \div 10
  IN IF m <= 3141 THEN SinHalf(m) ELSE -SinHalf(m - 3142)

\* Math.cos, argument in 1/AngScale radians, result in 1/SinScale.
Cos(a) == Sin(a + 15708)

\* ------------------------------------------------------------------------
\* Typed arrays and THREE.Color
\* ------------------------------------------------------------------------

\* new Float32Array(n): n zeros, indexed from 0.
Float32Array(n) == [k \in 0..(n - 1) |-> 0]

\* new THREE.Color("#rrggbb"): the channels of the hex strings in use,
\* in 1/1000.
ColorOfHex ==
  [c \in {"#4a4aff", "#ff4444"} |->
     IF c = "#4a4aff" THEN <<290, 290, 1000>> ELSE <<1000, 267, 267>>]

Max2(a, b) == IF a >= b THEN a ELSE b
Min2(a, b) == IF a <= b THEN a ELSE b

\* THREE.Color.getHSL(...).h of an (r, g, b) in 1/1000; hue in 1/1000 turns.
GetHue(rgb) ==
  LET r == rgb[1]
      g == rgb[2]
      b == rgb[3]
      max == Max2(r, Max2(g, b))
      min == Min2(r, Min2(g, b))
      delta == max - min
      six == IF max = r THEN ((g - b) * 1000) \div delta + (IF g < b THEN 6000 ELSE 0)
             ELSE IF max = g THEN ((b - r) * 1000) \div delta + 2000
             ELSE ((r - g) * 1000) \div delta + 4000
  IN IF min = max THEN 0 ELSE six \div 6

\* hue2rgb of three.js, all arguments in 1/1000.
Hue2Rgb(p, q, t0) ==
  LET t1 == IF t0 < 0 THEN t0 + 1000 ELSE t0
      t == IF t1 > 1000 THEN t1 - 1000 ELSE t1
  IN IF 6 * t < 1000 THEN p + ((q - p) * 6 * t) \div 1000
     ELSE IF 2 * t < 1000 THEN q
     ELSE IF 3 * t < 2000 THEN p + ((q - p) * (4000 - 6 * t)) \div 1000
     ELSE p

\* THREE.Color.setHSL(h, s, l): the (r, g, b) it stores, all in 1/1000.
SetHSL(h0, s0, l0) ==
  LET h == h0 % 1000
      s == Max2(0, Min2(1000, s0))
      l == Max2(0, Min2(1000, l0))
      p == IF 2 * l <= 1000 THEN (l * (1000 + s)) \div 1000
           ELSE l + s - (l * s) \div 1000
      q == 2 * l - p
  IN IF s = 0 THEN <<l, l, l>>
     ELSE <<Hue2Rgb(q, p, h + 333), Hue2Rgb(q, p, h), Hue2Rgb(q, p, h - 333)>>

\* ------------------------------------------------------------------------
\* WaveParticles: generation and connection build (useMemo)
\* ------------------------------------------------------------------------

\* Variant of DistanceTo that leaves the Y difference out.
DistanceToPlanar(p, q) ==
  LET dx == p[1] - q[1]
      dz == p[3] - q[3]
  IN Sqrt(dx * dx + dz * dz)

\* THREE.Vector3.distanceTo, in 1/PosScale.
DistanceTo(p, q) ==
  LET dx == p[1] - q[1]
      dy == p[2] - q[2]
      dz == p[3] - q[3]
  IN Sqrt(dx * dx + dy * dy + dz * dz)

\* Variant of ConnectionsInner that takes a pair whose distance is the
\* threshold itself.
RECURSIVE ConnectionsInnerInclusive(_, _, _, _, _, _, _)
ConnectionsInnerInclusive(particlePositions, count, connectionDistance, maxConnections, i, j, acc) ==
  IF ~(j < count) THEN acc
  ELSE LET distance == DistanceTo(particlePositions[i], particlePositions[j])
           seen == Append(acc.examined, <<i, j>>)
       IN IF distance <= connectionDistance * PosScale
          THEN LET pushed == Append(acc.lines, <<i, j>>)
               IN IF Len(pushed) >= maxConnections
                  THEN [lines |-> pushed, examined |-> seen]
                  ELSE ConnectionsInnerInclusive(particlePositions, count, connectionDistance,
                                                 maxConnections, i, j + 1,
                                                 [lines |-> pushed, examined |-> seen])
          ELSE ConnectionsInnerInclusive(particlePositions, count, connectionDistance,
                                         maxConnections, i, j + 1,
                                         [lines |-> acc.lines, examined |-> seen])

\* The inner loop "for (let j = ...; j < count; j++)" of the connection
\* build, entered at j.  acc.lines is connectionLines, acc.examined the pairs
\* whose distance has been computed.
RECURSIVE ConnectionsInner(_, _, _, _, _, _, _)
ConnectionsInner(particlePositions, count, connectionDistance, maxConnections, i, j, acc) ==
  IF ~(j < count) THEN acc
  ELSE LET distance == DistanceTo(particlePositions[i], particlePositions[j])
           seen == Append(acc.examined, <<i, j>>)
       IN IF distance < connectionDistance * PosScale
          THEN LET pushed == Append(acc.lines, <<i, j>>)
               IN IF Len(pushed) >= maxConnections
                  THEN [lines |-> pushed, examined |-> seen]
                  ELSE ConnectionsInner(particlePositions, count, connectionDistance,
                                        maxConnections, i, j + 1,
                                        [lines |-> pushed, examined |-> seen])
          ELSE ConnectionsInner(particlePositions, count, connectionDistance,
                                maxConnections, i, j + 1,
                                [lines |-> acc.lines, examined |-> seen])

\* Variant of ConnectionsOuter whose inner loop starts at j = 0.
RECURSIVE ConnectionsOuterFromZero(_, _, _, _, _, _)
ConnectionsOuterFromZero(particlePositions, count, connectionDistance, maxConnections, i, acc) ==
  IF ~(i < count) THEN acc
  ELSE LET r == ConnectionsInner(particlePositions, count, connectionDistance,
                                 maxConnections, i, 0, acc)
       IN IF Len(r.lines) >= maxConnections THEN r
          ELSE ConnectionsOuterFromZero(particlePositions, count, connectionDistance,
                                        maxConnections, i + 1, r)

\* Variant of ConnectionsOuter without the break that follows the inner loop.
RECURSIVE ConnectionsOuterNoBreak(_, _, _, _, _, _)
ConnectionsOuterNoBreak(particlePositions, count, connectionDistance, maxConnections, i, acc) ==
  IF ~(i < count) THEN acc
  ELSE ConnectionsOuterNoBreak(particlePositions, count, connectionDistance,
                               maxConnections, i + 1,
                               ConnectionsInner(particlePositions, count, connectionDistance,
                                                maxConnections, i, i + 1, acc))

\* The outer loop "for (let i = ...; i < count; i++)", entered at i.
RECURSIVE ConnectionsOuter(_, _, _, _, _, _)
ConnectionsOuter(particlePositions, count, connectionDistance, maxConnections, i, acc) ==
  IF ~(i < count) THEN acc
  ELSE LET r == ConnectionsInner(particlePositions, count, connectionDistance,
                                 maxConnections, i, i + 1, acc)
       IN IF Len(r.lines) >= maxConnections THEN r
          ELSE ConnectionsOuter(particlePositions, count, connectionDistance,
                                maxConnections, i + 1, r)

\* "Create connections between nearby particles".
BuildConnections(particlePositions, count, connectionDistance, maxConnections) ==
  ConnectionsOuter(particlePositions, count, connectionDistance, maxConnections, 0,
                   [lines |-> <<>>, examined |-> <<>>])

\* One iteration of the generation loop: the five Math.random() outcomes
\* rnd = <<rx, ry, rz, rh, rl>> (in 1/100) give the particle's position and
\* colour.
WaveParticlePosition(rnd) ==
  <<100 * rnd[1] - 5000, 30 * rnd[2] - 1500, 100 * rnd[3] - 5000>>

WaveParticleColor(particleColor, rnd) ==
  LET hue == GetHue(ColorOfHex[particleColor])
  IN SetHSL(hue + (rnd[4] - 50), 800, 300 + 2 * rnd[5])

\* The WaveParticles useMemo factory.  draws[i] holds the Math.random()
\* outcomes of iteration i.
WaveParticlesMemo(count, connectionDistance, maxConnections, particleColor, draws) ==
  LET particlePositions == [i \in 0..(count - 1) |-> WaveParticlePosition(draws[i])]
      positions == [k \in 0..(count * 3 - 1) |-> particlePositions[k \div 3][(k % 3) + 1]]
      colors == [k \in 0..(count * 3 - 1) |->
                   WaveParticleColor(particleColor, draws[k \div 3])[(k % 3) + 1]]
      built == BuildConnections(particlePositions, count, connectionDistance, maxConnections)
  IN [positions |-> positions, colors |-> colors, connections |-> built.lines,
      particlePositions |-> particlePositions, examined |-> built.examined]

\* Variant of LineGeometryMemo that allots one endpoint to a connection.
LineGeometryMemoShort(connections) == Float32Array(Len(connections) * 3)

\* lineGeometry useMemo factory: the line position buffer.
LineGeometryMemo(connections) == Float32Array(Len(connections) * 6)

\* ------------------------------------------------------------------------
\* WaveParticles: per-frame callbacks (useFrame)
\* ------------------------------------------------------------------------

\* Variant of WaveParticleY whose second wave adds z where it should
\* subtract it.
WaveParticleYSignSlip(x, z, elapsedTime, waveSpeed, waveIntensity) ==
  LET time == 100 * elapsedTime * waveSpeed
      wave1 == Sin((10 * x + 10 * z) + time) * (waveIntensity * 10)
      wave2 == Sin((5 * x + 5 * z) + (time * 6) \div 10) * (waveIntensity * 6)
      wave3 == Sin(10 * Sqrt(x * x + z * z) - (time * 8) \div 10) * (waveIntensity * 4)
  IN Fround(wave1 + wave2 + wave3, 1000)

\* The Y the wave callback computes for a particle at (x, z), in 1/PosScale:
\* elapsedTime in 1/TimeScale s, waveSpeed and waveIntensity in tenths.
WaveParticleY(x, z, elapsedTime, waveSpeed, waveIntensity) ==
  LET time == 100 * elapsedTime * waveSpeed
      wave1 == Sin((10 * x + 10 * z) + time) * (waveIntensity * 10)
      wave2 == Sin((5 * x - 5 * z) + (time * 6) \div 10) * (waveIntensity * 6)
      wave3 == Sin(10 * Sqrt(x * x + z * z) - (time * 8) \div 10) * (waveIntensity * 4)
  IN Fround(wave1 + wave2 + wave3, 1000)

\* Variant of WaveParticlesFrame that writes the height at offset i3, over x.
WaveParticlesFrameOverX(positions, count, elapsedTime, waveSpeed, waveIntensity) ==
  [k \in DOMAIN positions |->
     IF k % 3 = 0 /\ k \div 3 < count
     THEN WaveParticleY(positions[k], positions[k + 2], elapsedTime,
                        waveSpeed, waveIntensity)
     ELSE positions[k]]

\* First useFrame callback of WaveParticles: the loop over i < count.
WaveParticlesFrame(positions, count, elapsedTime, waveSpeed, waveIntensity) ==
  [k \in DOMAIN positions |->
     IF k % 3 = 1 /\ k \div 3 < count
     THEN WaveParticleY(positions[k - 1], positions[k + 1], elapsedTime,
                        waveSpeed, waveIntensity)
     ELSE positions[k]]

\* Variant of LineFrame that copies the x and z of the endpoints and leaves
\* the Y of the line buffer as the frame before left it.
LineFrameKeepY(linePositions, particlePositions, connections) ==
  [k \in DOMAIN linePositions |->
     IF k \div 6 < Len(connections) /\ k % 3 # 1
     THEN LET pair == connections[(k \div 6) + 1]
              src == (IF k % 6 < 3 THEN pair[1] ELSE pair[2]) * 3 + (k % 3)
          IN IF src \in DOMAIN particlePositions THEN particlePositions[src]
             ELSE NaN
     ELSE linePositions[k]]

\* Second useFrame callback of WaveParticles: connections.forEach copies the
\* endpoints of every pair into the line buffer.  A write past the end of a
\* typed array is dropped; a read past the end yields undefined, stored as NaN.
LineFrame(linePositions, particlePositions, connections) ==
  [k \in DOMAIN linePositions |->
     IF k \div 6 < Len(connections)
     THEN LET pair == connections[(k \div 6) + 1]
              src == (IF k % 6 < 3 THEN pair[1] ELSE pair[2]) * 3 + (k % 3)
          IN IF src \in DOMAIN particlePositions THEN particlePositions[src]
             ELSE NaN
     ELSE linePositions[k]]

\* ------------------------------------------------------------------------
\* WaveField: grid (useMemo) and per-frame callback
\* ------------------------------------------------------------------------

\* Uint16Array store of an index.
\* Variant of Uint16 that keeps the low eight bits.
Uint8(n) == n % 256

Uint16(n) == n % 65536

\* Variant of GridIndices whose b is one short of the next row.
GridIndicesShortRow(segments) ==
  [k \in 0..(segments * segments * 6 - 1) |->
     LET cell == k \div 6
         i == cell \div segments
         j == cell % segments
         a == i * (segments + 1) + j
         b == a + segments
         slot == k % 6
     IN Uint16(IF slot = 0 THEN a
               ELSE IF slot = 1 THEN b
               ELSE IF slot = 2 THEN a + 1
               ELSE IF slot = 3 THEN b
               ELSE IF slot = 4 THEN b + 1
               ELSE a + 1)]

\* The triangle index buffer both surface grids build: cell (i, j), i and j
\* below segments, contributes (a, b, a+1) and (b, b+1, a+1).
GridIndices(segments) ==
  [k \in 0..(segments * segments * 6 - 1) |->
     LET cell == k \div 6
         i == cell \div segments
         j == cell % segments
         a == i * (segments + 1) + j
         b == a + segments + 1
         slot == k % 6
     IN Uint16(IF slot = 0 THEN a
               ELSE IF slot = 1 THEN b
               ELSE IF slot = 2 THEN a + 1
               ELSE IF slot = 3 THEN b
               ELSE IF slot = 4 THEN b + 1
               ELSE a + 1)]

\* The WaveField useMemo factory (count is the segments prop).
WaveFieldMemo(count) ==
  LET segments == count
      positions == [k \in 0..((segments + 1) * (segments + 1) * 3 - 1) |->
                      LET v == k \div 3
                          i == v \div (segments + 1)
                          j == v % (segments + 1)
                      IN IF k % 3 = 0 THEN Fround(10000 * i - 5000 * segments, segments)
                         ELSE IF k % 3 = 1 THEN 0
                         ELSE Fround(10000 * j - 5000 * segments, segments)]
  IN [positions |-> positions, indices |-> GridIndices(segments)]

\* Variant of WaveFieldY whose fourth wave is added after the multiplication
\* by the intensity.
WaveFieldYUnscaledRipple(x, z, elapsedTime, waveSpeed, waveIntensity) ==
  LET time == 100 * elapsedTime * waveSpeed
      wave1 == Sin((10 * x) + time) * 20
      wave2 == Sin((10 * z) + (time * 6) \div 10) * 20
      wave3 == Sin((5 * x + 5 * z) + (time * 8) \div 10) * 30
      wave4 == Sin(10 * Sqrt(x * x + z * z) - (time * 12) \div 10) * 15
  IN Fround((wave1 + wave2 + wave3) * waveIntensity + wave4, 1000)

\* Variant of WaveFieldY whose third wave has the amplitude of the first two.
WaveFieldYEqualWaves(x, z, elapsedTime, waveSpeed, waveIntensity) ==
  LET time == 100 * elapsedTime * waveSpeed
      wave1 == Sin((10 * x) + time) * 20
      wave2 == Sin((10 * z) + (time * 6) \div 10) * 20
      wave3 == Sin((5 * x + 5 * z) + (time * 8) \div 10) * 20
      wave4 == Sin(10 * Sqrt(x * x + z * z) - (time * 12) \div 10) * 15
  IN Fround((wave1 + wave2 + wave3 + wave4) * waveIntensity, 1000)

\* The height the WaveField callback computes for a vertex at (x, z).
WaveFieldY(x, z, elapsedTime, waveSpeed, waveIntensity) ==
  LET time == 100 * elapsedTime * waveSpeed
      wave1 == Sin((10 * x) + time) * 20
      wave2 == Sin((10 * z) + (time * 6) \div 10) * 20
      wave3 == Sin((5 * x + 5 * z) + (time * 8) \div 10) * 30
      wave4 == Sin(10 * Sqrt(x * x + z * z) - (time * 12) \div 10) * 15
  IN Fround((wave1 + wave2 + wave3 + wave4) * waveIntensity, 1000)

\* Variant of WaveFieldFrame that adds the height to the Y already stored.
WaveFieldFrameAccumulating(positions, elapsedTime, waveSpeed, waveIntensity) ==
  [k \in DOMAIN positions |->
     IF k % 3 = 1
     THEN positions[k] + WaveFieldY(positions[k - 1], positions[k + 1], elapsedTime,
                                    waveSpeed, waveIntensity)
     ELSE positions[k]]

\* useFrame callback of WaveField: the loop over the position array.
WaveFieldFrame(positions, elapsedTime, waveSpeed, waveIntensity) ==
  [k \in DOMAIN positions |->
     IF k % 3 = 1
     THEN WaveFieldY(positions[k - 1], positions[k + 1], elapsedTime,
                     waveSpeed, waveIntensity)
     ELSE positions[k]]

\* ------------------------------------------------------------------------
\* GreatWave and GreatWaveSurface
\* ------------------------------------------------------------------------

\* Math.atan on [0, 1], argument in 1/1000, result in 1/AngScale radians.
AtanUnit(r) == (7854 * r + (273 * r * (1000 - r)) \div 100) \div 1000

\* Math.atan2(z, x) of two coordinates, in 1/AngScale radians, in (-pi, pi].
Atan2(z, x) ==
  LET ax == Abs(x)
      az == Abs(z)
      a == IF ax = 0 /\ az = 0 THEN 0
           ELSE IF ax >= az THEN AtanUnit((1000 * az) \div ax)
           ELSE 15708 - AtanUnit((1000 * ax) \div az)
      q == IF x < 0 THEN Pi - a ELSE a
  IN IF z < 0 THEN -q ELSE q

\* Position of a point at the polar coordinates the Great Wave generators
\* compute: angle in 1/AngScale radians, radius in 1/1000.
PolarX(angle, radius) == Fround(Cos(angle) * radius, 10000)
PolarZ(angle, radius) == Fround(Sin(angle) * radius, 10000)

\* One iteration of the GreatWave generation loop; rnd = <<ra, rr, rh, rl>>
\* are its Math.random() outcomes in 1/100.
GreatWavePosition(galaxyRadius, rnd) ==
  LET angle == (rnd[1] * TwoPi) \div 100
      radius == (600 + 7 * rnd[2]) * galaxyRadius
  IN <<PolarX(angle, radius), 0, PolarZ(angle, radius)>>

GreatWaveColor(rnd) == SetHSL(50 + rnd[3], 700, 500 + 3 * rnd[4])

\* The GreatWave useMemo factory.
GreatWaveMemo(particleCount, galaxyRadius, draws) ==
  [positions |-> [k \in 0..(particleCount * 3 - 1) |->
                    GreatWavePosition(galaxyRadius, draws[k \div 3])[(k % 3) + 1]],
   colors |-> [k \in 0..(particleCount * 3 - 1) |->
                 GreatWaveColor(draws[k \div 3])[(k % 3) + 1]]]

\* Variant of GreatWaveY whose angular wave has a fixed amplitude.
GreatWaveYFixedAngular(x, z, elapsedTime, waveAmplitude, waveLength, waveSpeed) ==
  LET distance == Sqrt(x * x + z * z)
      wavePhase == ((100 * distance - elapsedTime * waveSpeed * waveLength)
                      % (10000 * waveLength)) \div waveLength
      waveValue == Sin((wavePhase * TwoPi) \div 10000) * (waveAmplitude * 10)
      angle == Atan2(z, x)
      angularWave == Sin(angle * 2 + (elapsedTime * waveSpeed) \div 2) * 195
  IN Fround(waveValue + angularWave, 10000)

\* The displacement the GreatWave callback computes for a particle at (x, z):
\* waveAmplitude in hundredths, waveLength in units, waveSpeed in thousandths.
GreatWaveY(x, z, elapsedTime, waveAmplitude, waveLength, waveSpeed) ==
  LET distance == Sqrt(x * x + z * z)
      \* wavePhase in 1/10000 turns, reduced to one period of the sine
      wavePhase == ((100 * distance - elapsedTime * waveSpeed * waveLength)
                      % (10000 * waveLength)) \div waveLength
      waveValue == Sin((wavePhase * TwoPi) \div 10000) * (waveAmplitude * 10)
      angle == Atan2(z, x)
      angularWave == Sin(angle * 2 + (elapsedTime * waveSpeed) \div 2) * (waveAmplitude * 3)
  IN Fround(waveValue + angularWave, 10000)

\* Variant of GreatWaveFrame that adds the displacement to the Y already
\* stored.
GreatWaveFrameAccumulating(positions, particleCount, elapsedTime, waveAmplitude, waveLength, waveSpeed) ==
  [k \in DOMAIN positions |->
     IF k % 3 = 1 /\ k \div 3 < particleCount
     THEN positions[k] + GreatWaveY(positions[k - 1], positions[k + 1], elapsedTime,
                                    waveAmplitude, waveLength, waveSpeed)
     ELSE positions[k]]

\* useFrame callback of GreatWave: the loop over i < particleCount.
GreatWaveFrame(positions, particleCount, elapsedTime, waveAmplitude, waveLength, waveSpeed) ==
  [k \in DOMAIN positions |->
     IF k % 3 = 1 /\ k \div 3 < particleCount
     THEN GreatWaveY(positions[k - 1], positions[k + 1], elapsedTime,
                     waveAmplitude, waveLength, waveSpeed)
     ELSE positions[k]]

\* The GreatWaveSurface useMemo factory.
GreatWaveSurfaceMemo(segments, galaxyRadius) ==
  LET positions == [k \in 0..((segments + 1) * (segments + 1) * 3 - 1) |->
                      LET v == k \div 3
                          i == v \div (segments + 1)
                          j == v % (segments + 1)
                          angle == (i * TwoPi) \div segments
                          radius == ((600 * segments + 700 * j) * galaxyRadius) \div segments
                      IN IF k % 3 = 0 THEN PolarX(angle, radius)
                         ELSE IF k % 3 = 1 THEN 0
                         ELSE PolarZ(angle, radius)]
  IN [positions |-> positions, indices |-> GridIndices(segments)]

\* Variant of GreatWaveSurfaceY whose angular wave has half the amplitude of
\* the radial one.
GreatWaveSurfaceYHalfAngular(x, z, elapsedTime, waveAmplitude, waveLength, waveSpeed) ==
  LET distance == Sqrt(x * x + z * z)
      wavePhase == ((100 * distance - elapsedTime * waveSpeed * waveLength)
                      % (10000 * waveLength)) \div waveLength
      waveValue == Sin((wavePhase * TwoPi) \div 10000) * (waveAmplitude * 10)
      angle == Atan2(z, x)
      angularWave == Sin(angle * 2 + (elapsedTime * waveSpeed) \div 2) * (waveAmplitude * 5)
  IN Fround(waveValue + angularWave, 10000)

\* The displacement the GreatWaveSurface callback computes for a vertex.
GreatWaveSurfaceY(x, z, elapsedTime, waveAmplitude, waveLength, waveSpeed) ==
  LET distance == Sqrt(x * x + z * z)
      wavePhase == ((100 * distance - elapsedTime * waveSpeed * waveLength)
                      % (10000 * waveLength)) \div waveLength
      waveValue == Sin((wavePhase * TwoPi) \div 10000) * (waveAmplitude * 10)
      angle == Atan2(z, x)
      angularWave == Sin(angle * 2 + (elapsedTime * waveSpeed) \div 2) * (waveAmplitude * 3)
  IN Fround(waveValue + angularWave, 10000)

\* useFrame callback of GreatWaveSurface: the loop over the position array.
GreatWaveSurfaceFrame(positions, elapsedTime, waveAmplitude, waveLength, waveSpeed) ==
  [k \in DOMAIN positions |->
     IF k % 3 = 1
     THEN GreatWaveSurfaceY(positions[k - 1], positions[k + 1], elapsedTime,
                            waveAmplitude, waveLength, waveSpeed)
     ELSE positions[k]]

\* ------------------------------------------------------------------------
\* Galaxy (useMemo)
\* ------------------------------------------------------------------------

\* Math.log of a quotient q = num / den with 1 <= q < 2, in 1/10000:
\* 2 * atanh(u) with u = (q - 1) / (q + 1), three terms of the series.
LogUnit(num, den) ==
  LET u == (10000 * (num - den)) \div (num + den)
      u3 == (((u * u) \div 10000) * u) \div 10000
      u5 == (((u3 * u) \div 10000) * u) \div 10000
  IN 2 * (u + u3 \div 3 + u5 \div 5)

\* Math.log(num / den) for num >= den > 0, in 1/10000: halve the quotient
\* until it is below 2, adding ln 2 for every halving.
RECURSIVE Log(_, _)
Log(num, den) ==
  IF num >= 2 * den THEN 6931 + Log(num, 2 * den) ELSE LogUnit(num, den)

\* Variant of Jitter ten times as wide.
JitterWide(r) == 30 * (r - 50)

\* "Add some randomness" to x and z: (Math.random() - 0.5) * 0.3, in 1/1000,
\* of the outcome r in 1/100.
Jitter(r) == 3 * (r - 50)

\* Variant of ArmIndex that rounds to the nearest index.
ArmIndexRounded(angle, armCount) == (2 * angle * armCount + TwoPi) \div (2 * TwoPi)

\* Math.floor((angle / (Math.PI * 2)) * armCount), angle in 1/AngScale radians.
ArmIndex(angle, armCount) == (angle * armCount) \div TwoPi

\* (armIndex / armCount) * Math.PI * 2, in 1/AngScale radians.
ArmAngle(armIndex, armCount) == (armIndex * TwoPi) \div armCount

\* Variant of NormalizedRadius that does not take bulgeSize off the radius.
NormalizedRadiusUnshifted(radius, bulgeSize, galaxyRadius) ==
  (1000 * radius) \div (100 * galaxyRadius - bulgeSize * 10)

\* (radius - bulgeSize) / (galaxyRadius - bulgeSize), in 1/1000, of a radius
\* in 1/100 and a bulgeSize in tenths.
NormalizedRadius(radius, bulgeSize, galaxyRadius) ==
  (1000 * (radius - bulgeSize * 10)) \div (100 * galaxyRadius - bulgeSize * 10)

\* Position of one galaxy particle before the final store, in 1/1000.  rnd is
\* the sequence of Math.random() outcomes of the iteration, in call order, in
\* 1/100; bulgeSize and spiralTightness are in tenths.  For bulgeSize <= 0
\* Math.log(radius / bulgeSize) is NaN or an infinity, and so are the cosine
\* and the sine of the spiral angle and the x and z they give.
GalaxyParticle(galaxyRadius, armCount, barLength, bulgeSize, spiralTightness, rnd) ==
  LET angle == (rnd[1] * TwoPi) \div 100
      radius == rnd[2] * galaxyRadius
  IN IF radius < bulgeSize * 10
     THEN \* Bulge: spherical distribution
          LET cosPhi == 20 * rnd[3] - 1000
              sinPhi == Sqrt(1000000 - cosPhi * cosPhi)
              theta == (rnd[4] * TwoPi) \div 100
              r == Fround(radius * (300 + 7 * rnd[5]), 1000)
              x == Fround(Fround(r * sinPhi, 1000) * Cos(theta), 100)
              y == Fround(Fround(r * sinPhi, 1000) * Sin(theta) * 3, 1000)
              z == Fround(r * cosPhi, 100)
          IN <<x + Jitter(rnd[6]), y + 2 * (rnd[7] - 50), z + Jitter(rnd[8])>>
     ELSE \* Spiral arms with bar structure
          LET normalizedRadius == NormalizedRadius(radius, bulgeSize, galaxyRadius)
              barInfluence == IF radius < barLength * 100
                              THEN Fround(Cos(angle * 2) * (1000 - normalizedRadius), 1000)
                              ELSE 0
              armIndex == ArmIndex(angle, armCount)
              armAngle == ArmAngle(armIndex, armCount)
              spiralAngle == armAngle + (Log(radius, bulgeSize * 10) * spiralTightness) \div 10
              finalAngle == spiralAngle + barInfluence * 3
              x == Fround(Cos(finalAngle) * radius, 100)
              z == Fround(Sin(finalAngle) * radius, 100)
              y == Fround((rnd[3] - 50) * 4 * (1000 - normalizedRadius \div 2), 1000)
          IN IF bulgeSize <= 0
             THEN <<NaN, y + 2 * (rnd[5] - 50), NaN>>
             ELSE <<x + Jitter(rnd[4]), y + 2 * (rnd[5] - 50), z + Jitter(rnd[6])>>

\* Colour of one galaxy particle at the stored (x, z); c = <<c1, c2, c3>> are
\* the three Math.random() outcomes of the setHSL call.  A NaN x or z makes
\* normalizedDistance NaN, both comparisons false and the colour the last one.
GalaxyColor(galaxyRadius, x, z, c) ==
  LET distanceFromCenter == Sqrt(x * x + z * z)
      normalizedDistance == Min2((10 * distanceFromCenter) \div galaxyRadius, 1000)
  IN IF x = NaN \/ z = NaN
     THEN SetHSL(550 + c[1], 600 + 3 * c[2], 500 + 3 * c[3])
     ELSE IF normalizedDistance < 300
     THEN SetHSL(100 + c[1] \div 2, 700 + 2 * c[2], 600 + 3 * c[3])
     ELSE IF normalizedDistance < 600
     THEN SetHSL(80 + c[1], 300 + 3 * c[2], 700 + 2 * c[3])
     ELSE SetHSL(550 + c[1], 600 + 3 * c[2], 500 + 3 * c[3])

\* The three colour outcomes follow the position outcomes of the branch taken.
GalaxyColorDraws(galaxyRadius, bulgeSize, rnd) ==
  IF rnd[2] * galaxyRadius < bulgeSize * 10
  THEN <<rnd[9], rnd[10], rnd[11]>>
  ELSE <<rnd[7], rnd[8], rnd[9]>>

\* The Galaxy useMemo factory.
GalaxyMemo(particleCount, galaxyRadius, armCount, barLength, bulgeSize, spiralTightness, draws) ==
  LET count == particleCount
      positions == [k \in 0..(count * 3 - 1) |->
                      LET v == GalaxyParticle(galaxyRadius, armCount, barLength, bulgeSize,
                                              spiralTightness, draws[k \div 3])[(k % 3) + 1]
                      IN IF v = NaN THEN NaN ELSE Fround(v, 10)]
      colors == [k \in 0..(count * 3 - 1) |->
                   LET i == k \div 3
                   IN GalaxyColor(galaxyRadius, positions[i * 3], positions[i * 3 + 2],
                                  GalaxyColorDraws(galaxyRadius, bulgeSize, draws[i]))[(k % 3) + 1]]
      \* the radius sampled for every particle (a local of the factory), in 1/100
      radii == [i \in 0..(count - 1) |-> draws[i][2] * galaxyRadius]
      \* the angle sampled for every particle, in 1/AngScale radians
      angles == [i \in 0..(count - 1) |-> (draws[i][1] * TwoPi) \div 100]
  IN [positions |-> positions, colors |-> colors, radii |-> radii, angles |-> angles]

\* ------------------------------------------------------------------------
\* OrbitalZone (useMemo, the arrow useMemo and the arrow group)
\* ------------------------------------------------------------------------

\* new THREE.Color(color) of the colours the six zones are given, in 1/1000.
ZoneColorOfHex(c) ==
  IF c = "#ff4444" THEN <<1000, 267, 267>>
  ELSE IF c = "#aa44ff" THEN <<667, 267, 1000>>
  ELSE IF c = "#ff44aa" THEN <<1000, 267, 667>>
  ELSE IF c = "#44ff44" THEN <<267, 1000, 267>>
  ELSE IF c = "#ffaa44" THEN <<1000, 667, 267>>
  ELSE <<1000, 1000, 267>>

\* One iteration of the OrbitalZone generation loop; rnd = <<angle, radius,
\* y, radialComponent>> are its Math.random() outcomes in 1/100, minRadius
\* and maxRadius are in 1/100.  The radius is in 1/10000, the position in
\* 1/100, the direction in 1/1000.
OrbitalZoneParticle(minRadius, maxRadius, rnd) ==
  LET angle == (rnd[1] * TwoPi) \div 100
      radius == minRadius * 100 + rnd[2] * (maxRadius - minRadius)
      x == Fround(Cos(angle) * radius, 100000)
      z == Fround(Sin(angle) * radius, 100000)
      y == Fround((rnd[3] - 50) * 2, 10)
      tangentAngle == angle + Pi \div 2
      radialComponent == 3 * (rnd[4] - 50)
  IN [radius |-> radius,
      position |-> <<x, y, z>>,
      direction |->
        <<Fround(Cos(tangentAngle) * (1000 - Abs(radialComponent))
                   + Cos(angle) * radialComponent, 1000),
          0,
          Fround(Sin(tangentAngle) * (1000 - Abs(radialComponent))
                   + Sin(angle) * radialComponent, 1000)>>]

\* The first OrbitalZone useMemo factory; draws[i] are the outcomes of
\* iteration i.  radii are the radii sampled (locals of the factory).
OrbitalZoneMemo(particleCount, minRadius, maxRadius, color, draws) ==
  LET particle == [i \in 0..(particleCount - 1) |->
                     OrbitalZoneParticle(minRadius, maxRadius, draws[i])]
      positions == [k \in 0..(particleCount * 3 - 1) |->
                      particle[k \div 3].position[(k % 3) + 1]]
      colors == [k \in 0..(particleCount * 3 - 1) |-> ZoneColorOfHex(color)[(k % 3) + 1]]
      arrows == [n \in 1..particleCount |->
                   [position |-> particle[n - 1].position,
                    direction |-> particle[n - 1].direction]]
      radii == [i \in 0..(particleCount - 1) |-> particle[i].radius]
  IN [positions |-> positions, colors |-> colors, radii |-> radii,
      arrowData |-> SubSeq(arrows, 1, Min2(50, Len(arrows)))]

\* THREE.Vector3.normalize of a vector in 1/1000 (a zero vector stays zero).
Normalize(v) ==
  LET length == Sqrt(v[1] * v[1] + v[2] * v[2] + v[3] * v[3])
  IN IF length = 0 THEN v
     ELSE <<Fround(1000 * v[1], length), Fround(1000 * v[2], length),
            Fround(1000 * v[3], length)>>

\* The children the arrow useMemo leaves in the arrow group when it runs with
\* the group attached: the old arrows removed, one ArrowHelper per arrowData
\* entry added.
ArrowHelpers(arrowData, color) ==
  [n \in 1..Len(arrowData) |->
     [origin |-> arrowData[n].position, dir |-> Normalize(arrowData[n].direction),
      color |-> color]]

\* The first render and mount of an OrbitalZone with the props p: the arrow
\* useMemo runs during the render, when arrowsGroupRef.current is still
\* undefined, and creates nothing; the commit then attaches the ref to the
\* new, empty group if showArrows.
OrbitalZoneMount(p, draws) ==
  LET memo == OrbitalZoneMemo(p.particleCount, p.minRadius, p.maxRadius, p.color, draws)
  IN [props |-> p, positions |-> memo.positions, colors |-> memo.colors,
      radii |-> memo.radii, arrowData |-> memo.arrowData,
      arrows |-> <<>>, attached |-> p.showArrows]

\* A re-render of the mounted OrbitalZone zone with the props p.  The first
\* useMemo runs again if one of [particleCount, minRadius, maxRadius, color]
\* changed; the arrow useMemo runs again if one of [arrowData, color,
\* showArrows] changed, and creates arrows only if the ref is attached and
\* showArrows holds.  The commit mounts a new empty group when showArrows
\* turned true and unmounts the group when it turned false.
OrbitalZoneRender(zone, p, draws) ==
  LET old == zone.props
      stale == <<p.particleCount, p.minRadius, p.maxRadius, p.color>>
                 # <<old.particleCount, old.minRadius, old.maxRadius, old.color>>
      memo == IF stale
              THEN OrbitalZoneMemo(p.particleCount, p.minRadius, p.maxRadius, p.color, draws)
              ELSE [positions |-> zone.positions, colors |-> zone.colors,
                    radii |-> zone.radii, arrowData |-> zone.arrowData]
      arrowsStale == stale \/ p.color # old.color \/ p.showArrows # old.showArrows
      created == IF arrowsStale /\ zone.attached /\ p.showArrows
                 THEN ArrowHelpers(memo.arrowData, p.color)
                 ELSE zone.arrows
  IN [props |-> p, positions |-> memo.positions, colors |-> memo.colors,
      radii |-> memo.radii, arrowData |-> memo.arrowData,
      arrows |-> IF p.showArrows = old.showArrows THEN created ELSE <<>>,
      attached |-> p.showArrows]

\* The props MilkyWayVisualization passes to its six OrbitalZone elements,
\* innermost first; radii in 1/100 (bulgeSize is in tenths).
OrbitalZoneBands(p) ==
  LET band(color, minRadius, maxRadius) ==
        [color |-> color, minRadius |-> minRadius, maxRadius |-> maxRadius,
         particleCount |-> p.zoneParticleCount, showArrows |-> p.zoneShowArrows]
  IN <<band("#ff4444", 10 * p.bulgeSize, 25 * p.galaxyRadius),
       band("#aa44ff", 25 * p.galaxyRadius, 40 * p.galaxyRadius),
       band("#ff44aa", 40 * p.galaxyRadius, 55 * p.galaxyRadius),
       band("#44ff44", 55 * p.galaxyRadius, 70 * p.galaxyRadius),
       band("#ffaa44", 70 * p.galaxyRadius, 85 * p.galaxyRadius),
       band("#ffff44", 85 * p.galaxyRadius, 100 * p.galaxyRadius)>>

\* The outcomes draws gives to the iterations of the n-th zone.
ZoneDrawsOf(draws, n, particleCount) ==
  [i \in 0..(particleCount - 1) |-> draws[(n - 1) * particleCount + i]]

\* The zones after the first render with the parameters p: six mounted
\* zones if showOrbitalZones, none otherwise.
OrbitalZonesMount(p, draws) ==
  IF p.showOrbitalZones
  THEN [n \in 1..6 |-> OrbitalZoneMount(OrbitalZoneBands(p)[n],
                                        ZoneDrawsOf(draws, n, p.zoneParticleCount))]
  ELSE <<>>

\* The zones after a re-render with the parameters p: mounted zones
\* re-render, zones that were not shown mount, zones no longer shown
\* unmount.
OrbitalZonesRender(mounted, p, draws) ==
  IF ~p.showOrbitalZones THEN <<>>
  ELSE IF mounted = <<>> THEN OrbitalZonesMount(p, draws)
  ELSE [n \in 1..6 |-> OrbitalZoneRender(mounted[n], OrbitalZoneBands(p)[n],
                                         ZoneDrawsOf(draws, n, p.zoneParticleCount))]

\* ------------------------------------------------------------------------
\* Bounds and input sets
\* ------------------------------------------------------------------------

\* Largest clock value, in 1/TimeScale s.
MaxClock == 2
\* Largest number of parameter changes the user makes in the control panel.
MaxChanges == 2
\* Largest particle count, maxConnections and segments a component is given.
MaxCount == 3
MaxConn == 3
MaxSegments == 2

\* Math.random() outcomes (in 1/100) of one WaveParticles iteration:
\* <<x, y, z, hue, lightness>>.  They place particles at (0, 0, 0),
\* (3, 0, 4) and (0, 12, 0).
WaveParticlesDraws ==
  { <<50, 50, 50, 50, 50>>, <<53, 50, 54, 10, 90>>, <<50, 90, 50, 80, 20>> }

\* Math.random() outcomes of one GreatWave iteration: <<angle, radius, hue,
\* lightness>>.
GreatWaveDraws == { <<0, 0, 10, 10>>, <<40, 50, 60, 90>>, <<85, 99, 99, 0>> }

\* Math.random() outcomes of one Galaxy iteration, in call order: a bulge
\* particle, a spiral particle inside the bar and one in the outer arms.
GalaxyDraws ==
  { <<10, 5, 50, 25, 50, 50, 50, 50, 20, 50, 80>>,
    <<30, 20, 60, 40, 70, 50, 10, 60, 30, 0, 0>>,
    <<80, 90, 20, 90, 10, 70, 40, 70, 90, 0, 0>>,
    <<0, 11, 50, 0, 99, 99, 99, 99, 50, 50, 50>>,
    <<99, 99, 50, 99, 99, 0, 50, 50, 50, 0, 0>>,
    <<50, 0, 99, 0, 0, 0, 50, 50, 50, 0, 0>> }

\* Math.random() outcomes of one OrbitalZone iteration: <<angle, radius, y,
\* radialComponent>>.
ZoneDraws == { <<0, 0, 50, 50>>, <<30, 99, 0, 99>>, <<70, 50, 99, 0>> }

\* The outcomes of n iterations, every iteration drawing on its own.
AllDraws(n, Draws) == [0..(n - 1) -> Draws]

\* A family of outcomes in which the first iteration's draw fixes the rest
\* (iteration i takes the draw i places after it in a fixed enumeration).
RECURSIVE Enumerate(_)
Enumerate(S) ==
  IF S = {} THEN <<>>
  ELSE LET x == CHOOSE y \in S : TRUE IN <<x>> \o Enumerate(S \ {x})

SeededDraws(n, Draws) ==
  LET e == Enumerate(Draws)
  IN { [i \in 0..(n - 1) |-> e[((s + i) % Len(e)) + 1]] : s \in 0..(Len(e) - 1) }

\* The single outcome of that family that starts at the first draw.
FirstDraws(n, Draws) ==
  LET e == Enumerate(Draws)
  IN { [i \in 0..(n - 1) |-> e[(i % Len(e)) + 1]] }

\* The outcomes of n iterations in the family named: "all", "seeded" or
\* "first".
Outcomes(family, n, Draws) ==
  IF family = "all" THEN AllDraws(n, Draws)
  ELSE IF family = "seeded" THEN SeededDraws(n, Draws)
  ELSE FirstDraws(n, Draws)

\* ------------------------------------------------------------------------
\* State
\* ------------------------------------------------------------------------
VARIABLES
  params,            \* the parameters (App state and component props)
  clock,             \* state.clock.elapsedTime, in 1/TimeScale s
  galaxy,            \* Galaxy useMemo value: positions, colors
  waveField,         \* WaveField useMemo value: positions, indices
  waveParticles,     \* WaveParticles useMemo value: positions, colors,
                     \* connections (and the locals of the factory run)
  lineGeometry,      \* the line position buffer of WaveParticles
  greatWave,         \* GreatWave useMemo value: positions, colors
  greatWaveSurface,  \* GreatWaveSurface useMemo value: positions, indices
  regenerated,       \* the useMemo factories the last step ran
  lastAction,        \* "init", "frame" or "set": the kind of the last step
  repeated,          \* the last two steps were frames at the same clock time
  changes,           \* number of control-panel changes so far
  failure,           \* the error a render has thrown, "none" if none
  zones              \* the mounted OrbitalZone elements, innermost first:
                     \* props, useMemo value, arrow group children, ref

vars == <<params, clock, galaxy, waveField, waveParticles, lineGeometry,
          greatWave, greatWaveSurface, regenerated, lastAction, repeated, changes,
          failure, zones>>

\* Defaults of the parameters (destructuring defaults of
\* MilkyWayVisualization and of the components), with the particle and
\* segment counts scaled down.  Units: speeds and intensities in tenths,
\* bulgeSize and spiralTightness in tenths, greatWaveAmplitude in
\* hundredths, greatWaveSpeed in thousandths.
DefaultParams ==
  [galaxyParticleCount |-> 1, galaxyRadius |-> 25, galaxyRotationSpeed |-> 2,
   armCount |-> 4, barLength |-> 8, bulgeSize |-> 30, spiralTightness |-> 5,
   waveFieldSegments |-> 1, waveIntensity |-> 5, waveSpeed |-> 5,
   waveParticleCount |-> 2, connectionDistance |-> 8, maxConnections |-> 2,
   particleWaveIntensity |-> 50, particleWaveSpeed |-> 5,
   particleColor |-> "#4a4aff",
   showGreatWave |-> TRUE, greatWaveAmplitude |-> 65, greatWaveLength |-> 30,
   greatWaveSpeed |-> 50, showGreatWaveSurface |-> FALSE,
   greatWaveParticleCount |-> 1, greatWaveSurfaceSegments |-> 1,
   showOrbitalZones |-> TRUE, zoneParticleCount |-> 1, zoneShowArrows |-> TRUE]

\* Dependency arrays of the useMemo calls.
\* Variant of GalaxyDeps that lists the rotation speed too.
GalaxyDepsWithRotation(p) == <<p.galaxyParticleCount, p.galaxyRadius, p.armCount, p.barLength,
                               p.bulgeSize, p.spiralTightness, p.galaxyRotationSpeed>>
GalaxyDeps(p) == <<p.galaxyParticleCount, p.galaxyRadius, p.armCount, p.barLength,
                   p.bulgeSize, p.spiralTightness>>
WaveFieldDeps(p) == <<p.waveFieldSegments>>
\* Variant of WaveParticlesDeps that lists the wave speed too.
WaveParticlesDepsWithSpeed(p) == <<p.waveParticleCount, p.connectionDistance, p.maxConnections,
                                   p.particleColor, p.particleWaveSpeed>>
WaveParticlesDeps(p) == <<p.waveParticleCount, p.connectionDistance, p.maxConnections,
                          p.particleColor>>
GreatWaveDeps(p) == <<p.greatWaveParticleCount, p.galaxyRadius>>
GreatWaveSurfaceDeps(p) == <<p.greatWaveSurfaceSegments, p.galaxyRadius>>

\* ------------------------------------------------------------------------
\* Rendering: every useMemo whose dependencies changed runs its factory
\* ------------------------------------------------------------------------

\* The factories whose dependency arrays differ between two renders.
Stale(old, new) ==
  {m \in {"galaxy", "waveField", "waveParticles", "greatWave", "greatWaveSurface"} :
     \/ m = "galaxy" /\ GalaxyDeps(new) # GalaxyDeps(old)
     \/ m = "waveField" /\ WaveFieldDeps(new) # WaveFieldDeps(old)
     \/ m = "waveParticles" /\ WaveParticlesDeps(new) # WaveParticlesDeps(old)
     \/ m = "greatWave" /\ GreatWaveDeps(new) # GreatWaveDeps(old)
     \/ m = "greatWaveSurface" /\ GreatWaveSurfaceDeps(new) # GreatWaveSurfaceDeps(old)}

\* "new Float32Array(length)" throws a RangeError for a negative length.
Float32ArrayThrows(length) == length < 0

\* The factories that throw when they run on the parameters p: Galaxy,
\* WaveParticles and GreatWave begin with new Float32Array(count * 3).
Throwing(p) ==
  {m \in {"galaxy", "waveParticles", "greatWave"} :
     \/ m = "galaxy" /\ Float32ArrayThrows(p.galaxyParticleCount * 3)
     \/ m = "waveParticles" /\ Float32ArrayThrows(p.waveParticleCount * 3)
     \/ m = "greatWave" /\ Float32ArrayThrows(p.greatWaveParticleCount * 3)}

\* A render in which a factory throws commits nothing: the error leaves the
\* tree unmounted.
RenderThrows(old, new) ==
  /\ Stale(old, new) \cap Throwing(new) # {}
  /\ failure' = "RangeError"
  /\ regenerated' = {}
  /\ UNCHANGED <<galaxy, waveField, waveParticles, lineGeometry, greatWave,
                 greatWaveSurface, zones>>

\* A render in which no factory throws: every useMemo whose dependencies
\* changed takes the value its factory returns.  Outcomes(family, n, Draws)
\* is the set of outcomes the random source can give to n iterations.
RenderCommits(old, new, family) ==
  /\ Stale(old, new) \cap Throwing(new) = {}
  /\ failure' = failure
  /\ regenerated' = Stale(old, new)
  /\ IF "galaxy" \in Stale(old, new)
     THEN \E d \in Outcomes(family, new.galaxyParticleCount, GalaxyDraws) :
            galaxy' = GalaxyMemo(new.galaxyParticleCount, new.galaxyRadius, new.armCount,
                                 new.barLength, new.bulgeSize, new.spiralTightness, d)
     ELSE galaxy' = galaxy
  /\ IF "waveField" \in Stale(old, new)
     THEN waveField' = WaveFieldMemo(new.waveFieldSegments)
     ELSE waveField' = waveField
  /\ IF "waveParticles" \in Stale(old, new)
     THEN \E d \in Outcomes(family, new.waveParticleCount, WaveParticlesDraws) :
            waveParticles' = WaveParticlesMemo(new.waveParticleCount, new.connectionDistance,
                                               new.maxConnections, new.particleColor, d)
     ELSE waveParticles' = waveParticles
  /\ IF Len(waveParticles'.connections) # Len(waveParticles.connections)
     THEN lineGeometry' = LineGeometryMemo(waveParticles'.connections)
     ELSE lineGeometry' = lineGeometry
  /\ IF "greatWave" \in Stale(old, new)
     THEN \E d \in Outcomes(family, new.greatWaveParticleCount, GreatWaveDraws) :
            greatWave' = GreatWaveMemo(new.greatWaveParticleCount, new.galaxyRadius, d)
     ELSE greatWave' = greatWave
  /\ IF "greatWaveSurface" \in Stale(old, new)
     THEN greatWaveSurface' = GreatWaveSurfaceMemo(new.greatWaveSurfaceSegments,
                                                   new.galaxyRadius)
     ELSE greatWaveSurface' = greatWaveSurface
  /\ \E d \in Outcomes(family, 6 * new.zoneParticleCount, ZoneDraws) :
       zones' = OrbitalZonesRender(zones, new, d)

\* A re-render with the parameters new after a render with the parameters
\* old.
Render(old, new, family) == RenderCommits(old, new, family) \/ RenderThrows(old, new)

\* The state after the first render and mount: every factory has run once
\* on the parameters p, the random source giving outcomes of family (of
\* particleFamily to WaveParticles, of zoneFamily to the orbital zones).
MountWith(p, family, particleFamily, zoneFamily) ==
  /\ params = p
  /\ clock = 0
  /\ \E d \in Outcomes(family, p.galaxyParticleCount, GalaxyDraws) :
       galaxy = GalaxyMemo(p.galaxyParticleCount, p.galaxyRadius, p.armCount,
                           p.barLength, p.bulgeSize, p.spiralTightness, d)
  /\ waveField = WaveFieldMemo(p.waveFieldSegments)
  /\ \E d \in Outcomes(particleFamily, p.waveParticleCount, WaveParticlesDraws) :
       waveParticles = WaveParticlesMemo(p.waveParticleCount, p.connectionDistance,
                                         p.maxConnections, p.particleColor, d)
  /\ lineGeometry = LineGeometryMemo(waveParticles.connections)
  /\ \E d \in Outcomes(family, p.greatWaveParticleCount, GreatWaveDraws) :
       greatWave = GreatWaveMemo(p.greatWaveParticleCount, p.galaxyRadius, d)
  /\ greatWaveSurface = GreatWaveSurfaceMemo(p.greatWaveSurfaceSegments, p.galaxyRadius)
  /\ regenerated = {"galaxy", "waveField", "waveParticles", "greatWave", "greatWaveSurface"}
  /\ lastAction = "init"
  /\ repeated = FALSE
  /\ changes = 0
  /\ failure = "none"
  /\ \E d \in Outcomes(zoneFamily, 6 * p.zoneParticleCount, ZoneDraws) :
       zones = OrbitalZonesMount(p, d)

\* The same, the orbital zones getting the first outcome of the random
\* source.
Mount(p, family, particleFamily) == MountWith(p, family, particleFamily, "first")

Init == Mount(DefaultParams, "first", "seeded")

\* ------------------------------------------------------------------------
\* Actions
\* ------------------------------------------------------------------------

\* One rendered frame: the clock advances by dt and every useFrame callback
\* runs once (within WaveParticles the wave callback before the line
\* callback, their subscription order).
Frame(dt) ==
  /\ failure = "none"
  /\ clock + dt <= MaxClock
  /\ clock' = clock + dt
  /\ waveField' = [waveField EXCEPT !.positions =
                     WaveFieldFrame(@, clock', params.waveSpeed, params.waveIntensity)]
  /\ waveParticles' = [waveParticles EXCEPT !.positions =
                         WaveParticlesFrame(@, params.waveParticleCount, clock',
                                            params.particleWaveSpeed,
                                            params.particleWaveIntensity)]
  /\ lineGeometry' = LineFrame(lineGeometry, waveParticles'.positions,
                               waveParticles.connections)
  /\ greatWave' = IF params.showGreatWave
                  THEN [greatWave EXCEPT !.positions =
                          GreatWaveFrame(@, params.greatWaveParticleCount, clock',
                                         params.greatWaveAmplitude, params.greatWaveLength,
                                         params.greatWaveSpeed)]
                  ELSE greatWave
  /\ greatWaveSurface' = IF params.showGreatWaveSurface
                         THEN [greatWaveSurface EXCEPT !.positions =
                                 GreatWaveSurfaceFrame(@, clock', params.greatWaveAmplitude,
                                                       params.greatWaveLength,
                                                       params.greatWaveSpeed)]
                         ELSE greatWaveSurface
  /\ regenerated' = {}
  /\ lastAction' = "frame"
  /\ repeated' = (lastAction = "frame" /\ dt = 0)
  /\ UNCHANGED <<params, galaxy, changes, failure, zones>>

\* A parameter gets a new value and the tree re-renders before the next
\* frame.
SetParam(name, v, family) ==
  /\ failure = "none"
  /\ v # params[name]
  /\ params' = [params EXCEPT ![name] = v]
  /\ Render(params, params', family)
  /\ lastAction' = "set"
  /\ repeated' = FALSE
  /\ UNCHANGED clock

\* The values the control panel of App can set (slider ranges, with the
\* counts scaled down).
PanelValues ==
  [galaxyParticleCount |-> {1, 2}, galaxyRadius |-> {25, 30},
   galaxyRotationSpeed |-> {2, 5}, armCount |-> {2, 4}, barLength |-> {0, 8},
   bulgeSize |-> {10, 30}, spiralTightness |-> {5, 10},
   waveFieldSegments |-> {1, 2}, waveIntensity |-> {5, 20}, waveSpeed |-> {5, 20},
   waveParticleCount |-> {2, 3}, connectionDistance |-> {8, 15},
   maxConnections |-> {1, 2},
   particleWaveIntensity |-> {50, 150}, particleWaveSpeed |-> {5, 20},
   showGreatWave |-> BOOLEAN, greatWaveAmplitude |-> {0, 65, 200},
   greatWaveLength |-> {10, 30}, greatWaveSpeed |-> {50, 200},
   showGreatWaveSurface |-> BOOLEAN]

\* The user moves one control of the panel (a factory that runs again gets
\* the first outcome of the random source).
UserSetsParam ==
  /\ changes < MaxChanges
  /\ changes' = changes + 1
  /\ \E name \in DOMAIN PanelValues : \E v \in PanelValues[name] :
       SetParam(name, v, "first")

NextFrame == \E dt \in 0..1 : Frame(dt)

Next == NextFrame \/ UserSetsParam

Spec == Init /\ [][Next]_vars

\* ------------------------------------------------------------------------
\* WaveParticles as a component: its props take any value of these sets
\* ------------------------------------------------------------------------

\* Props of WaveParticles that its useMemo depends on, with the values a
\* parent can pass (zero and negative thresholds and caps included).
BuildProps ==
  [waveParticleCount |-> 0..MaxCount, connectionDistance |-> {-1, 0, 6, 13},
   maxConnections |-> (-1)..MaxConn]

\* WaveParticles is mounted with any of these props and any outcome of the
\* random source; frames follow.
InitWaveParticles ==
  \E count \in BuildProps.waveParticleCount :
  \E connectionDistance \in BuildProps.connectionDistance :
  \E maxConnections \in BuildProps.maxConnections :
    Mount([DefaultParams EXCEPT !.waveParticleCount = count,
                                !.connectionDistance = connectionDistance,
                                !.maxConnections = maxConnections],
          "first", "all")

SpecWaveParticles == InitWaveParticles /\ [][NextFrame]_vars

\* WaveParticles is mounted with a threshold and a cap that let pairs in,
\* and its parent re-renders it between frames.
InitWaveParticlesLive ==
  \E count \in BuildProps.waveParticleCount :
  \E connectionDistance \in {d \in BuildProps.connectionDistance : d > 0} :
  \E maxConnections \in 1..MaxConn :
    Mount([DefaultParams EXCEPT !.waveParticleCount = count,
                                !.connectionDistance = connectionDistance,
                                !.maxConnections = maxConnections],
          "first", "seeded")

\* The parent re-renders WaveParticles with another wave speed or intensity,
\* or with another colour.
WaveParticlesPropsChange ==
  /\ \E name \in {"particleWaveIntensity", "particleWaveSpeed", "particleColor"} :
     \E v \in (IF name = "particleColor" THEN {"#4a4aff", "#ff4444"}
               ELSE PanelValues[name]) :
       SetParam(name, v, "first")
  /\ UNCHANGED changes

NextWaveParticlesLive == NextFrame \/ WaveParticlesPropsChange

SpecWaveParticlesLive == InitWaveParticlesLive /\ [][NextWaveParticlesLive]_vars

\* ------------------------------------------------------------------------
\* Claims about WaveParticles (the build under SpecWaveParticles, the
\* re-renders under SpecWaveParticlesLive)
\* ------------------------------------------------------------------------

\* Squared Euclidean distance, in 1/PosScale^2, of two points.
SquaredDistance(p, q) ==
  (p[1] - q[1]) * (p[1] - q[1]) + (p[2] - q[2]) * (p[2] - q[2])
    + (p[3] - q[3]) * (p[3] - q[3])

\* p and q are strictly closer than the threshold d (in units).
Within(p, q, d) == d > 0 /\ SquaredDistance(p, q) < (d * PosScale) * (d * PosScale)

\* Particle i of a flat position buffer.
ParticleAt(positions, i) == <<positions[i * 3], positions[i * 3 + 1], positions[i * 3 + 2]>>

\* The pairs i < j of the current build whose construction-time distance is
\* below connectionDistance.
QualifyingPairs ==
  {pr \in (0..(params.waveParticleCount - 1)) \X (0..(params.waveParticleCount - 1)) :
     /\ pr[1] < pr[2]
     /\ Within(waveParticles.particlePositions[pr[1]],
               waveParticles.particlePositions[pr[2]], params.connectionDistance)}

LexLess(p, q) == p[1] < q[1] \/ (p[1] = q[1] /\ p[2] < q[2])

\* C1: the connection list holds at most maxConnections pairs, for every
\* maxConnections, zero and negative values included (a cap of zero or less
\* admits no pair).
C1_AtMostMaxConnections ==
  Len(waveParticles.connections) <= Max2(params.maxConnections, 0)

\* C2: every listed pair [i, j] has 0 <= i < j < count, its particles were
\* strictly closer than connectionDistance when the list was built, and no
\* unordered pair is listed twice.
C2_PairsValid ==
  LET c == waveParticles.connections
  IN \A n \in 1..Len(c) :
       /\ 0 <= c[n][1] /\ c[n][1] < c[n][2] /\ c[n][2] < params.waveParticleCount
       /\ Within(waveParticles.particlePositions[c[n][1]],
                 waveParticles.particlePositions[c[n][2]], params.connectionDistance)
       /\ \A m \in 1..Len(c) : m # n => {c[m][1], c[m][2]} # {c[n][1], c[n][2]}

\* C2 witness: a list of at least two pairs has been built and a frame has
\* moved the particles since.
C2_Witness ==
  /\ Len(waveParticles.connections) >= 2
  /\ lastAction = "frame"
  /\ clock > 0

\* C3: for maxConnections >= 1 the list is the first min(maxConnections, Q)
\* of the Q qualifying pairs in ascending (i, j) order, and once the list
\* holds maxConnections pairs the last pair examined is the last pair listed.
C3_FirstQualifyingInOrder ==
  LET c == waveParticles.connections
      e == waveParticles.examined
  IN params.maxConnections >= 1 =>
       /\ Len(c) = Min2(params.maxConnections, Cardinality(QualifyingPairs))
       /\ \A n \in 1..Len(c) :
            /\ c[n] \in QualifyingPairs
            /\ Cardinality({q \in QualifyingPairs : LexLess(q, c[n])}) = n - 1
       /\ Len(c) = params.maxConnections => e[Len(e)] = c[Len(c)]

\* C3 witness: the cap cut the scan short: more pairs qualify than are
\* listed and fewer pairs were examined than exist.
C3_Witness ==
  /\ params.maxConnections >= 2
  /\ Len(waveParticles.connections) = params.maxConnections
  /\ Cardinality(QualifyingPairs) > params.maxConnections
  /\ 2 * Len(waveParticles.examined)
       < params.waveParticleCount * (params.waveParticleCount - 1)

\* C4: a step that changes none of count, connectionDistance,
\* maxConnections and particleColor leaves the list of pairs as it was.
C4_ConnectionsImmutable ==
  [][/\ params'.waveParticleCount = params.waveParticleCount
     /\ params'.connectionDistance = params.connectionDistance
     /\ params'.maxConnections = params.maxConnections
     /\ params'.particleColor = params.particleColor
     => waveParticles'.connections = waveParticles.connections]_vars

\* C4 witness: after a frame, a listed pair is farther apart than
\* connectionDistance and an unlisted pair is within it.
C4_Witness ==
  /\ lastAction = "frame"
  /\ \E n \in 1..Len(waveParticles.connections) :
       ~Within(ParticleAt(waveParticles.positions, waveParticles.connections[n][1]),
               ParticleAt(waveParticles.positions, waveParticles.connections[n][2]),
               params.connectionDistance)
  /\ \E i, j \in 0..(params.waveParticleCount - 1) :
       /\ i < j
       /\ \A n \in 1..Len(waveParticles.connections) : waveParticles.connections[n] # <<i, j>>
       /\ Within(ParticleAt(waveParticles.positions, i),
                 ParticleAt(waveParticles.positions, j), params.connectionDistance)
       /\ Len(waveParticles.connections) < params.maxConnections

\* C10: after a WaveParticles frame update at elapsed time T every
\* particle's Y is I*sin(0.1x + 0.1z + t) + 0.6*I*sin(0.05x - 0.05z + 0.6t)
\* + 0.4*I*sin(0.1*dist - 0.8t), t = T * waveSpeed, whatever its Y was.
C10_ParticleHeight ==
  lastAction = "frame" =>
    \A i \in 0..(params.waveParticleCount - 1) :
      LET x == waveParticles.positions[i * 3]
          z == waveParticles.positions[i * 3 + 2]
          t == 100 * clock * params.particleWaveSpeed
          I == params.particleWaveIntensity
          term1 == 10 * I * Sin(10 * x + 10 * z + t)
          term2 == 6 * I * Sin(5 * x - 5 * z + 60 * clock * params.particleWaveSpeed)
          term3 == 4 * I * Sin(10 * Sqrt(x * x + z * z) - 80 * clock * params.particleWaveSpeed)
      IN waveParticles.positions[i * 3 + 1] = Fround(term1 + term2 + term3, 1000)

\* C10 witness: a frame at a positive time has rewritten the Y of a particle
\* away from the origin, which is not the Y it was generated with.
C10_Witness ==
  /\ lastAction = "frame"
  /\ clock > 0
  /\ \E i \in 0..(params.waveParticleCount - 1) :
       /\ waveParticles.positions[i * 3] # 0
       /\ waveParticles.positions[i * 3 + 1] # 0
       /\ waveParticles.positions[i * 3 + 1] # waveParticles.particlePositions[i][2]

\* ------------------------------------------------------------------------
\* The surface grids as components (WaveField and GreatWaveSurface)
\* ------------------------------------------------------------------------

\* Both grids are mounted with any segments value of 1..MaxSegments, the
\* Great Wave surface shown.
InitSurfaces ==
  \E count \in 1..MaxSegments : \E segments \in 1..MaxSegments :
    Mount([DefaultParams EXCEPT !.waveFieldSegments = count,
                                !.greatWaveSurfaceSegments = segments,
                                !.showGreatWaveSurface = TRUE],
          "first", "first")

\* Values a parent can pass for the props the surface callbacks read live.
SurfaceProps ==
  [waveIntensity |-> {0, 5, 20}, waveSpeed |-> {0, 5},
   greatWaveAmplitude |-> {0, 65}, galaxyRadius |-> {25, 30}]

\* The parent re-renders the surfaces with one prop changed.
SurfacePropsChange ==
  /\ \E name \in DOMAIN SurfaceProps : \E v \in SurfaceProps[name] :
       SetParam(name, v, "first")
  /\ UNCHANGED changes

NextSurfaces == NextFrame \/ SurfacePropsChange

SpecSurfaces == InitSurfaces /\ [][NextSurfaces]_vars

\* The grid of S segments: (S+1)^2 vertices, S^2 * 6 indices, the cell
\* (i, j) holding the triangles (a, b, a+1) and (b, b+1, a+1).
GridShape(grid, S) ==
  /\ DOMAIN grid.positions = 0..((S + 1) * (S + 1) * 3 - 1)
  /\ DOMAIN grid.indices = 0..(S * S * 6 - 1)
  /\ \A i, j \in 0..(S - 1) :
       LET a == i * (S + 1) + j
           b == a + S + 1
           at == (i * S + j) * 6
       IN <<grid.indices[at], grid.indices[at + 1], grid.indices[at + 2],
            grid.indices[at + 3], grid.indices[at + 4], grid.indices[at + 5]>>
            = <<a, b, a + 1, b, b + 1, a + 1>>
  /\ \A k \in DOMAIN grid.indices : grid.indices[k] < (S + 1) * (S + 1)

WeightedHeight(w, x, z, elapsedTime, waveSpeed, waveIntensity) ==
  LET t == elapsedTime * waveSpeed
  IN Fround(waveIntensity * (w[1] * Sin(10 * x + 100 * t)
                             + w[2] * Sin(10 * z + 60 * t)
                             + w[3] * Sin(5 * x + 5 * z + 80 * t)
                             + w[4] * Sin(10 * Sqrt(x * x + z * z) - 120 * t)),
            10000)

HeightsAre(w) ==
  lastAction = "frame" =>
    \A v \in 0..((params.waveFieldSegments + 1) * (params.waveFieldSegments + 1) - 1) :
      waveField.positions[v * 3 + 1]
        = WeightedHeight(w, waveField.positions[v * 3], waveField.positions[v * 3 + 2],
                         clock, params.waveSpeed, params.waveIntensity)

\* C9 as stated: after a WaveField frame update every vertex height is
\* I * [sin(0.1x + t) + sin(0.1z + 0.6t) + 1.5 sin(0.05x + 0.05z + 0.8t)
\* + 0.75 sin(0.1 dist - 1.2t)], the weights being 1, 1, 1.5 and 0.75.
C9_HeightAsStated == HeightsAre(<<100, 100, 150, 75>>)

\* C9 as amended: after a WaveField frame update every vertex height is
\* I * [2 sin(0.1x + t) + 2 sin(0.1z + 0.6t) + 3 sin(0.05x + 0.05z + 0.8t)
\* + 1.5 sin(0.1 dist - 1.2t)], the weights being 2, 2, 3 and 1.5.
C9_HeightAmended == HeightsAre(<<200, 200, 300, 150>>)

\* C9 witness: a frame at a positive time, speed and intensity has given
\* some vertex a height that is not zero.
C9_Witness ==
  /\ lastAction = "frame"
  /\ clock > 0
  /\ params.waveSpeed > 0
  /\ params.waveIntensity > 0
  /\ \E v \in 0..((params.waveFieldSegments + 1) * (params.waveFieldSegments + 1) - 1) :
       waveField.positions[v * 3 + 1] # 0

\* ------------------------------------------------------------------------
\* Claims about the whole scene (checked under Spec)
\* ------------------------------------------------------------------------

\* The parameters the frame callbacks read live.
LiveParams ==
  {"galaxyRotationSpeed", "waveIntensity", "waveSpeed", "particleWaveIntensity",
   "particleWaveSpeed", "greatWaveAmplitude", "greatWaveLength", "greatWaveSpeed"}

\* The useMemo values a count, segments, radius or armCount parameter feeds.
Affected(name) ==
  IF name \in {"galaxyParticleCount", "armCount"} THEN {"galaxy"}
  ELSE IF name = "galaxyRadius" THEN {"galaxy", "greatWave", "greatWaveSurface"}
  ELSE IF name = "waveFieldSegments" THEN {"waveField"}
  ELSE IF name = "waveParticleCount" THEN {"waveParticles"}
  ELSE {}

\* The buffers have the sizes the parameters p ask for.
SizedFor(p, g, wf, wp, lg, gw, gws) ==
  /\ DOMAIN g.positions = 0..(p.galaxyParticleCount * 3 - 1)
  /\ DOMAIN g.colors = 0..(p.galaxyParticleCount * 3 - 1)
  /\ DOMAIN wf.positions = 0..((p.waveFieldSegments + 1) * (p.waveFieldSegments + 1) * 3 - 1)
  /\ DOMAIN wp.positions = 0..(p.waveParticleCount * 3 - 1)
  /\ DOMAIN wp.colors = 0..(p.waveParticleCount * 3 - 1)
  /\ \A n \in 1..Len(wp.connections) : wp.connections[n][2] < p.waveParticleCount
  /\ DOMAIN lg = 0..(Len(wp.connections) * 6 - 1)
  /\ DOMAIN gw.positions = 0..(p.greatWaveParticleCount * 3 - 1)
  /\ DOMAIN gws.positions =
       0..((p.greatWaveSurfaceSegments + 1) * (p.greatWaveSurfaceSegments + 1) * 3 - 1)

\* C5: a step that changes a live parameter runs no factory and leaves every
\* generated value as it was; a step that changes a count, segments, radius
\* or armCount parameter runs the factories that parameter feeds, and the
\* buffers the next frame finds have the sizes of the new parameters.
C5_LiveOrRegenerate ==
  [][\A name \in DOMAIN params :
       params'[name] # params[name] =>
         /\ name \in LiveParams =>
              /\ regenerated' = {}
              /\ galaxy' = galaxy
              /\ waveField' = waveField
              /\ waveParticles' = waveParticles
              /\ greatWave' = greatWave
              /\ greatWaveSurface' = greatWaveSurface
         /\ Affected(name) \subseteq regenerated'
         /\ SizedFor(params', galaxy', waveField', waveParticles', lineGeometry',
                     greatWave', greatWaveSurface')]_vars

\* C5 witness: after frames have run, one control change re-ran a factory
\* and a later change of a live parameter ran none.
C5_Witness ==
  /\ changes = 2
  /\ clock > 0
  /\ lastAction = "set"
  /\ regenerated = {}
  /\ \E name \in {"galaxyParticleCount", "galaxyRadius", "armCount",
                  "waveFieldSegments", "waveParticleCount"} :
       params[name] # DefaultParams[name]
  /\ \E name \in LiveParams : params[name] # DefaultParams[name]

\* The x and z of every entry, the length and the order of a position
\* buffer are those of the buffer before.
OnlyYRewritten(before, after) ==
  /\ DOMAIN after = DOMAIN before
  /\ \A k \in DOMAIN before : k % 3 # 1 => after[k] = before[k]

\* C6: a frame leaves the x and z of every particle and vertex of WaveField,
\* WaveParticles, GreatWave and GreatWaveSurface, their number and their
\* order unchanged; it rewrites Y only.
C6_FrameRewritesOnlyY ==
  [][lastAction' = "frame" =>
       /\ OnlyYRewritten(waveField.positions, waveField'.positions)
       /\ OnlyYRewritten(waveParticles.positions, waveParticles'.positions)
       /\ OnlyYRewritten(greatWave.positions, greatWave'.positions)
       /\ OnlyYRewritten(greatWaveSurface.positions, greatWaveSurface'.positions)]_vars

\* Some Y of a position buffer is not zero.
SomeYNonZero(positions) == \E k \in DOMAIN positions : k % 3 = 1 /\ positions[k] # 0

\* C6 witness: a frame has run with both Great Wave layers shown and has
\* given every one of the four layers a Y that is not zero.
C6_Witness ==
  /\ lastAction = "frame"
  /\ params.showGreatWave
  /\ params.showGreatWaveSurface
  /\ SomeYNonZero(waveField.positions)
  /\ SomeYNonZero(waveParticles.positions)
  /\ SomeYNonZero(greatWave.positions)
  /\ SomeYNonZero(greatWaveSurface.positions)

\* C7: a frame that follows a frame at the same clock time (the live
\* parameters being the same) leaves the position buffers of WaveField,
\* WaveParticles, GreatWave and GreatWaveSurface as the first frame left
\* them.
C7_FrameIdempotent ==
  [][lastAction = "frame" /\ lastAction' = "frame" /\ clock' = clock =>
       /\ waveField'.positions = waveField.positions
       /\ waveParticles'.positions = waveParticles.positions
       /\ greatWave'.positions = greatWave.positions
       /\ greatWaveSurface'.positions = greatWaveSurface.positions]_vars

\* C7 witness: two frames in a row ran at the same positive clock time on
\* four layers whose Y are not all zero.
C7_Witness ==
  /\ repeated
  /\ clock > 0
  /\ params.showGreatWave
  /\ params.showGreatWaveSurface
  /\ SomeYNonZero(waveField.positions)
  /\ SomeYNonZero(waveParticles.positions)
  /\ SomeYNonZero(greatWave.positions)
  /\ SomeYNonZero(greatWaveSurface.positions)

\* ------------------------------------------------------------------------
\* Zero intensity and zero amplitude
\* ------------------------------------------------------------------------

\* C11: with waveIntensity = 0, after a WaveField frame update at any time
\* and any waveSpeed every vertex height is 0.
C11_ZeroIntensityFlat ==
  lastAction = "frame" /\ params.waveIntensity = 0 =>
    \A v \in 0..((params.waveFieldSegments + 1) * (params.waveFieldSegments + 1) - 1) :
      waveField.positions[v * 3 + 1] = 0

\* C11 witness: a frame has run at a positive time and speed with
\* waveIntensity = 0 on a grid of more than one cell.
C11_Witness ==
  /\ lastAction = "frame"
  /\ params.waveIntensity = 0
  /\ params.waveSpeed > 0
  /\ clock > 0
  /\ params.waveFieldSegments >= 2

\* The Great Wave layers as components: GreatWave is mounted with any count
\* of 0..MaxCount, GreatWaveSurface with any segments value of
\* 1..MaxSegments, both shown.
InitGreatWave ==
  \E particleCount \in 0..MaxCount : \E segments \in 1..MaxSegments :
    Mount([DefaultParams EXCEPT !.greatWaveParticleCount = particleCount,
                                !.greatWaveSurfaceSegments = segments,
                                !.showGreatWaveSurface = TRUE],
          "seeded", "first")

\* Values a parent can pass for the props the Great Wave callbacks read live.
GreatWaveProps ==
  [greatWaveAmplitude |-> {0, 65}, greatWaveLength |-> {10, 30},
   greatWaveSpeed |-> {50, 200}]

\* The parent re-renders the Great Wave layers with one prop changed.
GreatWavePropsChange ==
  /\ \E name \in DOMAIN GreatWaveProps : \E v \in GreatWaveProps[name] :
       SetParam(name, v, "first")
  /\ UNCHANGED changes

NextGreatWave == NextFrame \/ GreatWavePropsChange

SpecGreatWave == InitGreatWave /\ [][NextGreatWave]_vars

\* C12: with waveAmplitude = 0, after a frame the Great Wave displacement of
\* every particle and of every surface vertex is 0, for every x, z, time,
\* waveLength > 0 and waveSpeed.
C12_ZeroAmplitudeFlat ==
  lastAction = "frame" /\ params.greatWaveAmplitude = 0 /\ params.greatWaveLength > 0 =>
    /\ \A i \in 0..(params.greatWaveParticleCount - 1) : greatWave.positions[i * 3 + 1] = 0
    /\ \A k \in DOMAIN greatWaveSurface.positions :
         k % 3 = 1 => greatWaveSurface.positions[k] = 0

\* C12 witness: a frame has run at a positive time with waveAmplitude = 0 on
\* at least two particles and a surface of more than one cell.
C12_Witness ==
  /\ lastAction = "frame"
  /\ params.greatWaveAmplitude = 0
  /\ clock > 0
  /\ params.greatWaveParticleCount >= 2
  /\ params.greatWaveSurfaceSegments >= 2

\* ------------------------------------------------------------------------
\* Degenerate inputs of the connection build (checked under SpecWaveParticles)
\* ------------------------------------------------------------------------

\* C13: when maxConnections <= 0 the build returns an empty connection list
\* and evaluates no pair distance, whatever the positions and
\* connectionDistance.
C13_NoCapNoScan ==
  params.maxConnections <= 0 =>
    /\ waveParticles.connections = <<>>
    /\ waveParticles.examined = <<>>

\* C14: when connectionDistance <= 0 the build returns an empty connection
\* list, for every particle count, every position set (coincident particles
\* included) and every maxConnections.
C14_NoThresholdNoPairs ==
  params.connectionDistance <= 0 => waveParticles.connections = <<>>

\* C14 witness: the build ran with connectionDistance = 0 and a cap of at
\* least one on three particles, two of them at the same point.
C14_Witness ==
  /\ params.connectionDistance = 0
  /\ params.maxConnections >= 1
  /\ params.waveParticleCount = 3
  /\ waveParticles.particlePositions[0] = waveParticles.particlePositions[1]
  /\ waveParticles.particlePositions[2] # waveParticles.particlePositions[0]
  /\ Len(waveParticles.examined) = 3

\* ------------------------------------------------------------------------
\* The particle generators given any count
\* ------------------------------------------------------------------------

\* The counts a parent can pass to Galaxy, WaveParticles and GreatWave, zero
\* and a negative one included.
GeneratorCounts ==
  [galaxyParticleCount |-> (-1)..MaxCount, waveParticleCount |-> (-1)..MaxCount,
   greatWaveParticleCount |-> (-1)..MaxCount]

\* The parent re-renders one generator with another count.
GeneratorCountChange ==
  /\ \E name \in DOMAIN GeneratorCounts : \E v \in GeneratorCounts[name] :
       SetParam(name, v, "first")
  /\ UNCHANGED changes

NextGenerators == NextFrame \/ GeneratorCountChange

SpecGenerators == Init /\ [][NextGenerators]_vars

\* The buffer has no entry.
Empty(buffer) == DOMAIN buffer = {}

\* C15: a particle generator called with a count that is zero or negative
\* produces empty positions and colors (and, for WaveParticles, an empty
\* connection list), and no failure is raised.
C15_NonPositiveCountEmpty ==
  /\ failure = "none"
  /\ params.galaxyParticleCount <= 0 => Empty(galaxy.positions) /\ Empty(galaxy.colors)
  /\ params.waveParticleCount <= 0 =>
       /\ Empty(waveParticles.positions)
       /\ Empty(waveParticles.colors)
       /\ waveParticles.connections = <<>>
  /\ params.greatWaveParticleCount <= 0 =>
       Empty(greatWave.positions) /\ Empty(greatWave.colors)

\* ------------------------------------------------------------------------
\* Galaxy as a component: its props take any value of these sets
\* ------------------------------------------------------------------------

\* Props of Galaxy that its useMemo depends on, with the values a parent can
\* pass (bulgeSize in tenths; zero, a negative one and one that is not below
\* galaxyRadius included).
GalaxyProps ==
  [galaxyParticleCount |-> 0..MaxCount, galaxyRadius |-> {25, 30}, armCount |-> {1, 3, 4},
   barLength |-> {0, 8}, bulgeSize |-> {-10, 0, 10, 30, 250}, spiralTightness |-> {5, 10}]

\* Galaxy is mounted with any of these props and any outcome of the seeded
\* family; frames follow.
InitGalaxy ==
  \E particleCount \in GalaxyProps.galaxyParticleCount :
  \E galaxyRadius \in GalaxyProps.galaxyRadius :
  \E armCount \in GalaxyProps.armCount :
  \E barLength \in GalaxyProps.barLength :
  \E bulgeSize \in GalaxyProps.bulgeSize :
  \E spiralTightness \in GalaxyProps.spiralTightness :
    Mount([DefaultParams EXCEPT !.galaxyParticleCount = particleCount,
                                !.galaxyRadius = galaxyRadius,
                                !.armCount = armCount,
                                !.barLength = barLength,
                                !.bulgeSize = bulgeSize,
                                !.spiralTightness = spiralTightness],
          "seeded", "first")

SpecGalaxy == InitGalaxy /\ [][NextFrame]_vars

\* C16: when bulgeSize <= 0 no particle takes the bulge branch and the
\* logarithm is given a minimum positive value for bulgeSize, so every
\* generated position is finite.
C16_NoBulgeFinite ==
  params.bulgeSize <= 0 =>
    \A k \in DOMAIN galaxy.positions : galaxy.positions[k] # NaN

\* C17: for every particle count N the connection build returns after it
\* has evaluated at most N * (N - 1) / 2 pair distances, no pair twice,
\* whether or not the cap is reached.
C17_BuildTerminates ==
  LET e == waveParticles.examined
      N == params.waveParticleCount
  IN /\ 2 * Len(e) <= N * (N - 1)
     /\ \A m, n \in 1..Len(e) : m # n => e[m] # e[n]
     /\ \A n \in 1..Len(e) : 0 <= e[n][1] /\ e[n][1] < e[n][2] /\ e[n][2] < N

\* C17 witness: the build examined every pair of three particles without
\* reaching the cap.
C17_Witness ==
  /\ params.waveParticleCount = 3
  /\ Len(waveParticles.examined) = 3
  /\ Len(waveParticles.connections) >= 1
  /\ Len(waveParticles.connections) < params.maxConnections

\* Squared planar distance, in 1/PosScale^2, of particle i of the galaxy.
PlanarSquared(i) ==
  galaxy.positions[i * 3] * galaxy.positions[i * 3] +
    galaxy.positions[i * 3 + 2] * galaxy.positions[i * 3 + 2]

\* C18: for 0 < bulgeSize < galaxyRadius every galaxy particle's planar
\* distance is at most galaxyRadius + 0.3, and that of a particle of the
\* bulge branch (sampled radius < bulgeSize) at most bulgeSize + 0.3.
C18_PlanarDistanceBounded ==
  0 < params.bulgeSize /\ params.bulgeSize < 10 * params.galaxyRadius =>
    \A i \in 0..(params.galaxyParticleCount - 1) :
      /\ PlanarSquared(i) <= (100 * params.galaxyRadius + 30) * (100 * params.galaxyRadius + 30)
      /\ galaxy.radii[i] < 10 * params.bulgeSize =>
           PlanarSquared(i) <= (10 * params.bulgeSize + 30) * (10 * params.bulgeSize + 30)

\* C18 witness: a galaxy holds a bulge particle that the jitter moved
\* farther out than its sampled radius, and a spiral particle sampled in the
\* outer tenth of the disc.
C18_Witness ==
  /\ 0 < params.bulgeSize
  /\ \E i \in 0..(params.galaxyParticleCount - 1) :
       /\ galaxy.radii[i] < 10 * params.bulgeSize
       /\ PlanarSquared(i) > galaxy.radii[i] * galaxy.radii[i]
  /\ \E i \in 0..(params.galaxyParticleCount - 1) :
       /\ galaxy.radii[i] >= 90 * params.galaxyRadius
       /\ PlanarSquared(i) > 0

\* C19: the Great Wave Y of a particle after a frame at clock time t is a
\* function of its (x, z), of t and of the current amplitude, waveLength and
\* waveSpeed alone: whatever frames and prop changes came before, the frame
\* leaves the same Y.
C19_GreatWaveHistoryFree ==
  lastAction = "frame" /\ params.showGreatWave =>
    \A i \in 0..(params.greatWaveParticleCount - 1) :
      greatWave.positions[i * 3 + 1]
        = GreatWaveY(greatWave.positions[i * 3], greatWave.positions[i * 3 + 2], clock,
                     params.greatWaveAmplitude, params.greatWaveLength,
                     params.greatWaveSpeed)

\* C19 witness: time 2 has been reached by a run that repeated a frame, and
\* the last frame left a particle a Y that is not zero.
C19_Witness ==
  /\ repeated
  /\ clock >= 2
  /\ params.showGreatWave
  /\ params.greatWaveAmplitude > 0
  /\ params.greatWaveParticleCount >= 2
  /\ SomeYNonZero(greatWave.positions)

\* ------------------------------------------------------------------------
\* The connection lines (checked under SpecWaveParticlesLive)
\* ------------------------------------------------------------------------

\* C20: after a frame, for every connection at list position idx with pair
\* [i, j], the six floats at line-buffer offset 6 * idx are the positions of
\* particles i and j as that same frame's wave update left them.
C20_LineEndpointsCurrent ==
  lastAction = "frame" =>
    \A n \in 1..Len(waveParticles.connections) :
      LET i == waveParticles.connections[n][1]
          j == waveParticles.connections[n][2]
          lineIdx == (n - 1) * 6
      IN /\ <<lineGeometry[lineIdx], lineGeometry[lineIdx + 1], lineGeometry[lineIdx + 2]>>
              = ParticleAt(waveParticles.positions, i)
         /\ <<lineGeometry[lineIdx + 3], lineGeometry[lineIdx + 4], lineGeometry[lineIdx + 5]>>
              = ParticleAt(waveParticles.positions, j)

\* C20 witness: frames have run at two times on a list of at least two
\* pairs, and the last one gave the two ends of a line different heights,
\* neither the one the particle was generated with.
C20_Witness ==
  /\ lastAction = "frame"
  /\ clock >= 2
  /\ Len(waveParticles.connections) >= 2
  /\ \E n \in 1..Len(waveParticles.connections) :
       LET i == waveParticles.connections[n][1]
           j == waveParticles.connections[n][2]
       IN /\ lineGeometry[(n - 1) * 6 + 1] # lineGeometry[(n - 1) * 6 + 4]
          /\ lineGeometry[(n - 1) * 6 + 1] # waveParticles.particlePositions[i][2]
          /\ lineGeometry[(n - 1) * 6 + 4] # waveParticles.particlePositions[j][2]

\* ------------------------------------------------------------------------
\* The Great Wave displacement (checked under SpecGreatWave)
\* ------------------------------------------------------------------------

\* amplitude * sin(2 pi (dist / waveLength - time * waveSpeed))
\* + 0.3 * amplitude * sin(2 * atan2(z, x) + 0.5 * time * waveSpeed), in
\* 1/PosScale, of a point at (x, z).
StatedDisplacement(x, z, time, amplitude, waveLength, waveSpeed) ==
  LET dist == Sqrt(x * x + z * z)
      turns == ((100 * dist - time * waveSpeed * waveLength) % (10000 * waveLength))
                 \div waveLength
  IN Fround(10 * amplitude * Sin((turns * TwoPi) \div 10000)
              + 3 * amplitude * Sin(2 * Atan2(z, x) + (time * waveSpeed) \div 2),
            10000)

\* C21: the Y GreatWave writes for a particle at (x, z) and the Y
\* GreatWaveSurface writes for a vertex at (x, z) are both
\* amplitude * sin(2 pi (dist / waveLength - time * waveSpeed))
\* + 0.3 * amplitude * sin(2 * atan2(z, x) + 0.5 * time * waveSpeed), so a
\* particle and a vertex at the same (x, z) get the same Y.
C21_SameDisplacement ==
  lastAction = "frame" /\ params.showGreatWave /\ params.showGreatWaveSurface =>
    /\ \A i \in 0..(params.greatWaveParticleCount - 1) :
         greatWave.positions[i * 3 + 1]
           = StatedDisplacement(greatWave.positions[i * 3], greatWave.positions[i * 3 + 2],
                                clock, params.greatWaveAmplitude, params.greatWaveLength,
                                params.greatWaveSpeed)
    /\ \A k \in DOMAIN greatWaveSurface.positions :
         k % 3 = 1 =>
           greatWaveSurface.positions[k]
             = StatedDisplacement(greatWaveSurface.positions[k - 1],
                                  greatWaveSurface.positions[k + 1], clock,
                                  params.greatWaveAmplitude, params.greatWaveLength,
                                  params.greatWaveSpeed)

\* C21 witness: after a frame at a positive time a particle and a surface
\* vertex stand at the same (x, z) and hold the same Y, which is not zero.
C21_Witness ==
  /\ lastAction = "frame"
  /\ clock > 0
  /\ params.greatWaveAmplitude > 0
  /\ \E i \in 0..(params.greatWaveParticleCount - 1) :
     \E k \in DOMAIN greatWaveSurface.positions :
       /\ k % 3 = 1
       /\ greatWaveSurface.positions[k - 1] = greatWave.positions[i * 3]
       /\ greatWaveSurface.positions[k + 1] = greatWave.positions[i * 3 + 2]
       /\ greatWaveSurface.positions[k] = greatWave.positions[i * 3 + 1]
       /\ greatWaveSurface.positions[k] # 0

\* ------------------------------------------------------------------------
\* The spiral branch of the galaxy generator (checked under SpecGalaxy)
\* ------------------------------------------------------------------------

\* The particles of the galaxy that took the spiral-arm branch.
SpiralParticles ==
  {i \in 0..(params.galaxyParticleCount - 1) : ~(galaxy.radii[i] < 10 * params.bulgeSize)}

\* C22: for armCount >= 1 and a sampled angle in [0, 2 pi) a spiral-branch
\* particle gets the arm index floor(angle / (2 pi) * armCount), which lies
\* in 0..armCount - 1, is the index of the equal-width sector that holds the
\* angle, and gives a base arm angle that is at most the angle.
C22_ArmIndexInRange ==
  params.armCount >= 1 =>
    \A i \in SpiralParticles :
      LET angle == galaxy.angles[i]
          armIndex == ArmIndex(angle, params.armCount)
      IN /\ 0 <= angle /\ angle < TwoPi
         /\ armIndex \in 0..(params.armCount - 1)
         /\ armIndex * TwoPi <= angle * params.armCount
         /\ angle * params.armCount < (armIndex + 1) * TwoPi
         /\ ArmAngle(armIndex, params.armCount) <= angle

\* C22 witness: of three arms, one spiral-branch particle fell in the first
\* sector and one at the far end of the last sector.
C22_Witness ==
  /\ params.armCount = 3
  /\ params.bulgeSize > 0
  /\ \E i \in SpiralParticles : ArmIndex(galaxy.angles[i], params.armCount) = 0
  /\ \E i \in SpiralParticles :
       /\ ArmIndex(galaxy.angles[i], params.armCount) = 2
       /\ galaxy.angles[i] > (99 * TwoPi) \div 100 - 1

\* C25: with bulgeSize > 0 every particle of the spiral branch has
\* bulgeSize <= radius < galaxyRadius, so the divisor galaxyRadius - bulgeSize
\* is positive, normalizedRadius lies in [0, 1) and the argument of the
\* logarithm is at least 1; with bulgeSize >= galaxyRadius no particle takes
\* the spiral branch.
C25_SpiralBranchInRange ==
  /\ params.bulgeSize > 0 =>
       \A i \in SpiralParticles :
         LET radius == galaxy.radii[i]
             normalizedRadius == NormalizedRadius(radius, params.bulgeSize,
                                                  params.galaxyRadius)
         IN /\ 10 * params.bulgeSize <= radius
            /\ radius < 100 * params.galaxyRadius
            /\ 100 * params.galaxyRadius - 10 * params.bulgeSize > 0
            /\ 0 <= normalizedRadius /\ normalizedRadius < 1000
            /\ Log(radius, 10 * params.bulgeSize) >= 0
  /\ (params.bulgeSize > 0 /\ 10 * params.bulgeSize >= 100 * params.galaxyRadius) =>
       SpiralParticles = {}

\* C25 witness: with a bulge of 3 in a galaxy of radius 25, one particle fell
\* in the bulge and one on the spiral branch at 0.99 of the galaxy radius,
\* where normalizedRadius is above 0.9.
C25_Witness ==
  /\ params.bulgeSize = 30
  /\ params.galaxyRadius = 25
  /\ \E i \in 0..(params.galaxyParticleCount - 1) : i \notin SpiralParticles
  /\ \E i \in SpiralParticles :
       /\ galaxy.radii[i] = 99 * 25
       /\ NormalizedRadius(galaxy.radii[i], params.bulgeSize, params.galaxyRadius) > 900

\* ------------------------------------------------------------------------
\* The line buffer across parameter changes (checked under Spec)
\* ------------------------------------------------------------------------

\* C23: after any sequence of parameter changes and frames, every
\* connection pair [i, j] has i and j below the current particle count, the
\* particle buffer holds 3 floats per particle and the line buffer exactly 6
\* floats per connection of the current list, so every endpoint read and
\* write of the line update is inside its buffer (no line float is NaN).
C23_LineUpdateInBounds ==
  LET c == waveParticles.connections
  IN /\ DOMAIN waveParticles.positions = 0..(params.waveParticleCount * 3 - 1)
     /\ DOMAIN lineGeometry = 0..(Len(c) * 6 - 1)
     /\ \A n \in 1..Len(c) :
          /\ c[n][1] \in 0..(params.waveParticleCount - 1)
          /\ c[n][2] \in 0..(params.waveParticleCount - 1)
     /\ \A k \in DOMAIN lineGeometry : lineGeometry[k] # NaN

\* C23 witness: the particle count and the connection threshold have been
\* changed in the panel, the list has grown to two pairs among three
\* particles, and a frame has run on it.
C23_Witness ==
  /\ changes >= 2
  /\ params.waveParticleCount = 3
  /\ params.waveParticleCount # DefaultParams.waveParticleCount
  /\ Len(waveParticles.connections) = 2
  /\ lastAction = "frame"
  /\ clock > 0

\* ------------------------------------------------------------------------
\* The surface grids at the sizes the application gives them
\* ------------------------------------------------------------------------

\* The segments values the Wave Field slider of App can set (min 30, max 100,
\* step 5) and the segments GreatWaveSurface is rendered with (its default).
PanelSegments == {30 + 5 * n : n \in 0..14}
GreatWaveSurfaceDefaultSegments == 100

\* The scene is mounted with any segments value of the slider.
InitPanelSegments ==
  \E count \in PanelSegments :
    Mount([DefaultParams EXCEPT !.waveFieldSegments = count,
                                !.greatWaveSurfaceSegments = GreatWaveSurfaceDefaultSegments],
          "first", "first")

\* The user moves a wave slider that rebuilds nothing.
PanelWaveChange ==
  /\ \E name \in {"waveIntensity", "waveSpeed", "greatWaveAmplitude"} :
     \E v \in PanelValues[name] :
       SetParam(name, v, "first")
  /\ UNCHANGED changes

SpecPanelSegments == InitPanelSegments /\ [][PanelWaveChange]_vars

\* No index of the grid of S segments has wrapped: the largest index
\* (S+1)^2 - 1 is below 2^16 and is what the last cell holds, and the last
\* cell of every row i, whose b + 1 is the largest index of the row, holds
\* a, b and b + 1 as computed.
NoIndexWrapped(grid, S) ==
  /\ (S + 1) * (S + 1) - 1 < 65536
  /\ grid.indices[S * S * 6 - 2] = (S + 1) * (S + 1) - 1
  /\ \A i \in 0..(S - 1) :
       LET a == i * (S + 1) + (S - 1)
           b == a + S + 1
           at == (i * S + (S - 1)) * 6
       IN /\ grid.indices[at] = a
          /\ grid.indices[at + 1] = b
          /\ grid.indices[at + 4] = b + 1

\* C24: for every segments value the application can reach (WaveField
\* 30..100 from the slider, GreatWaveSurface 100) the largest triangle index
\* (segments+1)^2 - 1 is below 2^16, and no index stored in the Uint16Array
\* has wrapped modulo 65536.
C24_IndicesFitUint16 ==
  /\ params.waveFieldSegments \in PanelSegments
  /\ params.greatWaveSurfaceSegments = GreatWaveSurfaceDefaultSegments
  /\ NoIndexWrapped(waveField, params.waveFieldSegments)
  /\ NoIndexWrapped(greatWaveSurface, params.greatWaveSurfaceSegments)

\* C24 witness: the scene has been mounted with the slider at its maximum;
\* both grids have 100 segments and their last cell holds the index 10200.
C24_Witness ==
  /\ params.waveFieldSegments = 100
  /\ waveField.indices[59998] = 10200
  /\ greatWaveSurface.indices[59998] = 10200
  /\ lastAction = "init"

\* ------------------------------------------------------------------------
\* The orbital zones of the scene under the control panel
\* ------------------------------------------------------------------------

\* The values of the Bulge Size slider (1 to 8 in steps of 0.5, in tenths)
\* and of the galaxy Radius slider (10 to 50 in steps of 1).
PanelBulgeSizes == {10 + 5 * n : n \in 0..14}
PanelGalaxyRadii == 10..50

\* The scene is mounted with the defaults of App and three particles a
\* zone, the random source giving any outcome of the seeded family.
InitZoneBands ==
  MountWith([DefaultParams EXCEPT !.zoneParticleCount = 3], "first", "first", "seeded")

\* The user moves the Bulge Size or the Radius slider one step up or down.
PanelBandChange ==
  /\ \E name \in {"bulgeSize", "galaxyRadius"} :
     \E v \in (IF name = "bulgeSize"
               THEN PanelBulgeSizes \cap {params.bulgeSize - 5, params.bulgeSize + 5}
               ELSE PanelGalaxyRadii \cap {params.galaxyRadius - 1, params.galaxyRadius + 1}) :
       SetParam(name, v, "first")
  /\ UNCHANGED changes

SpecZoneBands == InitZoneBands /\ [][PanelBandChange]_vars

\* Zone n was passed minRadius <= maxRadius and every particle of it has its
\* radius in [minRadius, maxRadius] (radii in 1/10000, props in 1/100).
BandInRange(n) ==
  /\ zones[n].props.minRadius <= zones[n].props.maxRadius
  /\ \A i \in DOMAIN zones[n].radii :
       /\ 100 * zones[n].props.minRadius <= zones[n].radii[i]
       /\ zones[n].radii[i] <= 100 * zones[n].props.maxRadius

\* Zone n and the next zone outwards do not overlap: the band of n ends
\* where the next begins or before, and no particle of n is farther out
\* than a particle of the next zone.
BandBelowNext(n) ==
  /\ zones[n].props.maxRadius <= zones[n + 1].props.minRadius
  /\ \A i \in DOMAIN zones[n].radii : \A j \in DOMAIN zones[n + 1].radii :
       zones[n].radii[i] <= zones[n + 1].radii[j]

\* C26: for every combination of bulgeSize (1..8) and galaxyRadius (10..50)
\* the control panel allows, each of the six zones is passed
\* minRadius <= maxRadius, every zone particle has its radius in
\* [minRadius, maxRadius], and consecutive zones do not overlap.
C26_BandsOrderedDisjoint ==
  (params.bulgeSize \in PanelBulgeSizes /\ params.galaxyRadius \in PanelGalaxyRadii) =>
    /\ Len(zones) = 6
    /\ \A n \in 1..6 : BandInRange(n)
    /\ \A n \in 1..5 : BandBelowNext(n)

\* ------------------------------------------------------------------------
\* OrbitalZone as a component: mounts, re-renders and frames
\* ------------------------------------------------------------------------

\* Props of the zones and the parameters their radii come from, with the
\* values a parent can pass (counts on both sides of the cap of 50 arrows).
ZoneProps ==
  [zoneParticleCount |-> {0, 1, 50, 51}, zoneShowArrows |-> BOOLEAN,
   showOrbitalZones |-> BOOLEAN, galaxyRadius |-> {25, 30}]

\* The zones are mounted with any particle count and any showArrows.
InitOrbitalZones ==
  \E particleCount \in ZoneProps.zoneParticleCount :
  \E showArrows \in ZoneProps.zoneShowArrows :
    MountWith([DefaultParams EXCEPT !.zoneParticleCount = particleCount,
                                    !.zoneShowArrows = showArrows],
              "first", "first", "seeded")

\* The parent re-renders the zones with other props, hides them or shows
\* them again.
ZonePropsChange ==
  /\ \E name \in DOMAIN ZoneProps : \E v \in ZoneProps[name] :
       SetParam(name, v, "first")
  /\ UNCHANGED changes

NextOrbitalZones == NextFrame \/ ZonePropsChange

SpecOrbitalZones == InitOrbitalZones /\ [][NextOrbitalZones]_vars

\* The arrow group of zone n holds one arrow per arrowData entry, that is
\* min(50, particleCount) arrows, arrow k at the position of particle k.
ArrowsMatchParticles(n) ==
  /\ Len(zones[n].arrows) = Len(zones[n].arrowData)
  /\ Len(zones[n].arrows) = Min2(50, zones[n].props.particleCount)
  /\ \A k \in 1..Len(zones[n].arrows) :
       zones[n].arrows[k].origin = ParticleAt(zones[n].positions, k - 1)

\* C27: whenever an OrbitalZone is shown with showArrows true, right after
\* its first mount included, its arrow group holds exactly one arrow per
\* arrowData entry, min(50, particleCount) arrows, each at the position of
\* the particle of the same index among the first 50 generated.
C27_ArrowsMatchArrowData ==
  \A n \in DOMAIN zones : zones[n].props.showArrows => ArrowsMatchParticles(n)

====
